---- MODULE Spec2Model ----
(***************************************************************************)
(* A state-machine model of the uncertain-number algebra of GTC            *)
(* (src/GTC/lib_real.py): the leaf registry, the three sensitivity         *)
(* vectors of an UncertainReal, registration of intermediate results,      *)
(* correlation and ensemble bookkeeping, the standard variance and the     *)
(* Welch-Satterthwaite degrees of freedom.                                 *)
(*                                                                         *)
(* Python floats are modelled as exact rationals [n, d] in lowest terms    *)
(* (rounding is outside the model); a square root that is not rational is  *)
(* kept as a surd.  Python objects are modelled by their index in the      *)
(* collection that owns them: an UncertainReal is an index into `nums`, a  *)
(* Leaf is its uid (key of `leaves`), an ensemble set object is an index   *)
(* into `ens`.  The modules GTC.vector, GTC.nodes and GTC.context are not  *)
(* part of the source tree; the few primitives used from them are          *)
(* modelled from the specification document.                              *)
(***************************************************************************)
EXTENDS Integers, Sequences, FiniteSets, TLC

VARIABLES
    leaves,     \* registry of Leaf nodes: uid -> Leaf record
    ens,        \* heap of ensemble set objects, referenced from the leaves
    inodes,     \* _context._registered_intermediate_nodes: uid -> Node record
    nextE,      \* last elementary id handed out by the context
    nextI,      \* last intermediate id handed out by the context
    nums,       \* every UncertainReal object created so far
    arrs,       \* every array object the caller holds (GTC.LU)
    ret         \* the last call: operation, arguments, error, returned value

vars == <<leaves, ens, inodes, nextE, nextI, nums, arrs, ret>>

\* the most Leaf nodes, UncertainReal objects and ensemble sets a run creates
MaxLeaves == 2
MaxNums == 3
MaxEns == 1
WSLeaves == 3
WSNums == 4
SumLeaves == 3
SumNums == 6
ArithLeaves == 2
ArithNums == 4
CxLeaves == 2
CxNums == 6
MatN == 2
LUArrs == 4
LUMaxEntry == 2
DofLeaves == 3
DofNums == 5
MixNums == 6
CovNums == 4
DeclLeaves == 3
EnsLeaves == 3
EnsSets == 2

\* float('inf'): larger than every finite degrees of freedom of the model
inf == 1000
\* the uid of the Leaf of a constant (uid=None), also "no ensemble"
None == 0

(***************************************************************************)
(* Exact arithmetic standing for Python floats                             *)
(***************************************************************************)
Abs(n) == IF n < 0 THEN -n ELSE n

RECURSIVE Gcd(_, _)
Gcd(a, b) == IF b = 0 THEN a ELSE Gcd(b, a % b)

\* the rational n/d (d # 0) in lowest terms with a positive denominator
Rat(n, d) ==
    LET g == Gcd(Abs(n), Abs(d))
        s == IF d < 0 THEN -1 ELSE 1
    IN  [n |-> (s * n) \div g, d |-> (s * d) \div g]

R(k) == [n |-> k, d |-> 1]
Zero == R(0)
One == R(1)
RAdd(a, b) == Rat(a.n * b.d + b.n * a.d, a.d * b.d)
RMul(a, b) == Rat(a.n * b.n, a.d * b.d)
\* a / b for b # 0
RDiv(a, b) == Rat(a.n * b.d, a.d * b.n)
RNeg(a) == [n |-> -a.n, d |-> a.d]
RLt(a, b) == a.n * b.d < b.n * a.d

IsSquare(k) == \E j \in 0..k : j * j = k
IntSqrt(k) == CHOOSE j \in 0..k : j * j = k

\* math.sqrt(v) for v >= 0: a rational when v is a square of one, else a surd
Sqrt(v) ==
    IF IsSquare(v.n) /\ IsSquare(v.d)
    THEN [surd |-> FALSE, q |-> [n |-> IntSqrt(v.n), d |-> IntSqrt(v.d)]]
    ELSE [surd |-> TRUE, q |-> v]

\* a float that is a plain rational, as an uncertainty value
Exact(q) == [surd |-> FALSE, q |-> q]

\* u*u for an uncertainty value
Sq(u) == IF u.surd THEN u.q ELSE RMul(u.q, u.q)

(***************************************************************************)
(* Sensitivity vectors (GTC.vector): a map from node uid to coefficient,   *)
(* iterated in uid order.                                                  *)
(***************************************************************************)
Vector == << >>

VectorOf(k, c) == [i \in {k} |-> c]

RECURSIVE SortedSeq(_)
SortedSeq(S) ==
    IF S = {} THEN << >>
    ELSE LET m == CHOOSE x \in S : \A y \in S : x <= y
         IN  <<m>> \o SortedSeq(S \ {m})

\* Vector.keys(): the keys in uid order
Keys(v) == SortedSeq(DOMAIN v)

Get(v, k) == IF k \in DOMAIN v THEN v[k] ELSE Zero

\* result[n] = ca*a[n] + cb*b[n] over the union of the keys
merge_weighted_vectors(a, ca, b, cb) ==
    [k \in (DOMAIN a) \cup (DOMAIN b) |->
        RAdd(RMul(ca, Get(a, k)), RMul(cb, Get(b, k)))]

\* union of the keys; coefficients add where a key appears in both
merge_vectors(a, b) ==
    [k \in (DOMAIN a) \cup (DOMAIN b) |-> RAdd(Get(a, k), Get(b, k))]

\* every coefficient multiplied by c
scale_vector(v, c) == [k \in DOMAIN v |-> RMul(c, v[k])]

(***************************************************************************)
(* UncertainReal objects                                                   *)
(***************************************************************************)
NoNode == [kind |-> "none", uid |-> None]
LeafRef(uid) == [kind |-> "Leaf", uid |-> uid]
NodeRef(uid) == [kind |-> "Node", uid |-> uid]

NoU == [has |-> FALSE, val |-> Exact(Zero)]

\* UncertainReal.__init__
UncertainReal(context, x, u_comp, d_comp, i_comp, node) ==
    [ _context |-> context,
      _x |-> x,
      _u_components |-> u_comp,
      _d_components |-> d_comp,
      _i_components |-> i_comp,
      _node |-> node,
      is_elementary |-> (node.kind = "Leaf" /\ node.uid # None),
      is_intermediate |-> (node.kind = "Node"),
      _u |-> NoU ]

(***************************************************************************)
(* Leaf and Node records                                                   *)
(***************************************************************************)
\* Context.new_leaf: a Leaf with no ensemble and no complex pair.  The map of
\* a dependent Leaf starts with its own uid at 1.0: std_covariance_real and
\* _covariance_submatrix take the term of a key with itself from the map.
new_leaf(uid, u, df, independent) ==
    [ uid |-> uid, u |-> u, df |-> df, independent |-> independent,
      correlation |-> IF independent THEN << >> ELSE [k \in {uid} |-> One],
      ensemble |-> None, complex |-> <<None, None>> ]

\* the contents of the set object a Leaf's `ensemble` attribute refers to
EnsembleOf(k) == IF leaves[k].ensemble = None THEN {} ELSE ens[leaves[k].ensemble]

\* an element of an ensemble set: a uid, or a Leaf object
UidElem(uid) == [t |-> "uid", id |-> uid]
LeafElem(uid) == [t |-> "Leaf", id |-> uid]

\* k_i.correlation.get(k_j.uid, 0.0)
Corr(ki, kj) ==
    IF kj \in DOMAIN leaves[ki].correlation THEN leaves[ki].correlation[kj] ELSE Zero

RECURSIVE RSum(_)
RSum(s) == IF s = << >> THEN Zero ELSE RAdd(s[1], RSum(Tail(s)))

\* _is_uncertain_real_constant
is_uncertain_real_constant(x) ==
    DOMAIN x._u_components = {} /\ DOMAIN x._d_components = {}

\* std_variance_real: independent squares, then dependent squares and
\* twice the covariance of every later key
std_variance_real(x) ==
    LET ukeys == Keys(x._u_components)
        keys == Keys(x._d_components)
        values == [i \in 1..Len(keys) |-> x._d_components[keys[i]]]
        uvar == RSum([i \in 1..Len(ukeys) |->
                    RMul(x._u_components[ukeys[i]], x._u_components[ukeys[i]])])
        row(i) == RAdd(RMul(values[i], values[i]),
                       RSum([j \in 1..(Len(keys) - i) |->
                            RMul(R(2), RMul(values[i],
                                RMul(Corr(keys[i], keys[i + j]), values[i + j])))]))
    IN  RAdd(uvar, RSum([i \in 1..Len(keys) |-> row(i)]))

\* self._node.u of an elementary or intermediate number
NodeU(x) ==
    IF x._node.kind = "Leaf" THEN Exact(leaves[x._node.uid].u)
    ELSE inodes[x._node.uid].u

\* UncertainReal.u: [err, val, cache] with cache the value left in self._u
prop_u(x) ==
    IF x._u.has THEN [err |-> "none", val |-> x._u.val, cache |-> x._u]
    ELSE IF x.is_elementary \/ x.is_intermediate
    THEN [err |-> "none", val |-> NodeU(x), cache |-> [has |-> TRUE, val |-> NodeU(x)]]
    ELSE LET v == std_variance_real(x)
         IN  IF RLt(v, Zero)
             THEN [err |-> "ValueError", val |-> Exact(Zero), cache |-> x._u]
             ELSE [err |-> "none", val |-> Sqrt(v), cache |-> [has |-> TRUE, val |-> Sqrt(v)]]

\* UncertainReal.v: [err, val, cache]
prop_v(x) ==
    IF x._u.has THEN [err |-> "none", val |-> Sq(x._u.val), cache |-> x._u]
    ELSE IF x.is_elementary \/ x.is_intermediate
    THEN [err |-> "none", val |-> Sq(NodeU(x)), cache |-> [has |-> TRUE, val |-> NodeU(x)]]
    ELSE LET v == std_variance_real(x)
         IN  IF RLt(v, Zero)
             THEN [err |-> "ValueError", val |-> Zero, cache |-> x._u]
             ELSE [err |-> "none", val |-> v, cache |-> [has |-> TRUE, val |-> Sqrt(v)]]

(***************************************************************************)
(* Welch-Satterthwaite                                                     *)
(***************************************************************************)
NaN == [kind |-> "nan", q |-> Zero]
InfDof == [kind |-> "inf", q |-> Zero]
\* a degrees-of-freedom float: a number, or inf
DofOf(df) == IF df = inf THEN InfDof ELSE [kind |-> "num", q |-> R(df)]

is_infinity(df) == df = inf

\* cpts_map[e][0] += v for an ensemble e already in the map
MapAdd(m, e, v) == [m EXCEPT ![e] = [@ EXCEPT ![1] = RAdd(@, v)]]

\* cpts_lst[-1] += v
LastAdd(lst, v) == [lst EXCEPT ![Len(lst)] = RAdd(@, v)]

\* the variance of key k_i goes to its ensemble's entry, to the open complex
\* term, or to a new term of its own
WSPlace(acc, ensemble_i, v_i, df_i, mayCreate) ==
    LET m1 == IF mayCreate /\ ensemble_i # {} /\ ensemble_i \notin DOMAIN acc.cpts_map
              THEN [e \in DOMAIN acc.cpts_map \cup {ensemble_i} |->
                        IF e = ensemble_i THEN <<Zero, df_i>> ELSE acc.cpts_map[e]]
              ELSE acc.cpts_map
        a1 == [acc EXCEPT !.var = RAdd(@, v_i), !.cpts_map = m1]
    IN  IF ensemble_i \in DOMAIN m1
        THEN [a1 EXCEPT !.cpts_map = MapAdd(m1, ensemble_i, v_i)]
        ELSE IF acc.finish_complex
        THEN IF acc.cpts_lst = << >>
             THEN [a1 EXCEPT !.err = "IndexError"]
             ELSE [a1 EXCEPT !.cpts_lst = LastAdd(@, v_i)]
        ELSE [a1 EXCEPT !.cpts_lst = Append(@, v_i), !.dof_lst = Append(@, df_i)]

\* the loop over the remaining influences k_j of key number i
RECURSIVE WSInner(_, _, _, _, _)
WSInner(acc, d_keys, d_values, i, j) ==
    IF acc.err # "none" \/ j > Len(d_keys) THEN acc
    ELSE
        LET k_i == d_keys[i]
            k_j == d_keys[j]
            ensemble_i == EnsembleOf(k_i)
            complex_id == leaves[k_i].complex
        IN  IF k_j \notin DOMAIN leaves[k_i].correlation
            THEN WSInner(acc, d_keys, d_values, i, j + 1)
            ELSE
                LET r == leaves[k_i].correlation[k_j]
                    covar_ij == RMul(R(2), RMul(d_values[i], RMul(r, d_values[j])))
                    a1 == [acc EXCEPT !.var = RAdd(@, covar_ij)]
                IN  IF is_infinity(leaves[k_i].df) /\ is_infinity(leaves[k_j].df)
                    THEN WSInner(a1, d_keys, d_values, i, j + 1)
                    ELSE IF UidElem(k_j) \in ensemble_i
                    THEN WSInner([a1 EXCEPT !.cpts_map = MapAdd(@, ensemble_i, covar_ij)],
                                 d_keys, d_values, i, j + 1)
                    ELSE IF <<k_i, k_j>> = complex_id
                    THEN IF a1.cpts_lst = << >>
                         THEN [a1 EXCEPT !.err = "IndexError"]
                         ELSE WSInner([a1 EXCEPT !.cpts_lst = LastAdd(@, covar_ij)],
                                      d_keys, d_values, i, j + 1)
                    \* df = nan; assert False
                    ELSE [a1 EXCEPT !.df = "nan", !.err = "AssertionError"]

\* the rest of one pass of the outer loop, after the variance of key number i
\* has been placed: finish_complex is set and the inner loop runs
WSPairs(acc, d_keys, d_values, i) ==
    IF acc.err # "none" THEN acc
    ELSE WSInner([acc EXCEPT !.finish_complex =
                        (<<d_keys[i], d_keys[i + 1]>> = leaves[d_keys[i]].complex)],
                 d_keys, d_values, i, i + 1)

\* the loop over all dependent keys but the last
RECURSIVE WSOuter(_, _, _, _)
WSOuter(acc, d_keys, d_values, i) ==
    IF acc.err # "none" \/ i >= Len(d_keys) THEN acc
    ELSE WSOuter(WSPairs(WSPlace(acc, EnsembleOf(d_keys[i]),
                                 RMul(d_values[i], d_values[i]),
                                 leaves[d_keys[i]].df, TRUE),
                         d_keys, d_values, i),
                 d_keys, d_values, i + 1)

\* the independent components: one term each
RECURSIVE WSIndep(_, _, _, _)
WSIndep(acc, u_keys, u_cpts, i) ==
    IF i > Len(u_keys) THEN acc
    ELSE LET v_i == RMul(u_cpts[u_keys[i]], u_cpts[u_keys[i]])
         IN  WSIndep([acc EXCEPT !.var = RAdd(@, v_i),
                                 !.cpts_lst = Append(@, v_i),
                                 !.dof_lst = Append(@, leaves[u_keys[i]].df)],
                     u_keys, u_cpts, i + 1)

\* den: the sum of (v_i/var)^2/dof_i over the terms of finite dof
RECURSIVE WSDen(_, _, _)
WSDen(cpts_lst, dof_lst, var) ==
    IF cpts_lst = << >> THEN Zero
    ELSE LET rest == WSDen(Tail(cpts_lst), Tail(dof_lst), var)
             u2 == RDiv(Head(cpts_lst), var)
         IN  IF is_infinity(Head(dof_lst)) THEN rest
             ELSE RAdd(RDiv(RMul(u2, u2), R(Head(dof_lst))), rest)

\* the terms accumulated for the ensembles, in some order
RECURSIVE MapTerms(_, _)
MapTerms(m, S) ==
    IF S = {} THEN << >>
    ELSE LET e == CHOOSE e \in S : TRUE
         IN  <<m[e]>> \o MapTerms(m, S \ {e})

\* the dependent components, when there are any
WSDep(acc, d_keys, d_values) ==
    IF Len(d_keys) = 0 THEN acc ELSE WSOuter(acc, d_keys, d_values, 1)

\* the last dependent key: it never creates an ensemble entry
WSLast(acc, d_keys, d_values) ==
    IF Len(d_keys) = 0 \/ acc.err # "none" THEN acc
    ELSE WSPlace(acc, EnsembleOf(d_keys[Len(d_keys)]),
                 RMul(d_values[Len(d_keys)], d_values[Len(d_keys)]),
                 leaves[d_keys[Len(d_keys)]].df, FALSE)

\* the ensemble terms are appended to the lists of terms
WSLists(acc) ==
    LET terms == MapTerms(acc.cpts_map, DOMAIN acc.cpts_map)
    IN  IF acc.err # "none" THEN acc
        ELSE [acc EXCEPT !.cpts_lst = @ \o [t \in 1..Len(terms) |-> terms[t][1]],
                         !.dof_lst = @ \o [t \in 1..Len(terms) |-> terms[t][2]]]

\* WSResult answering nan where 1.0/den raises ZeroDivisionError (C22 tells it
\* from the original)
WSResultZeroDenIsNaN(x, acc) ==
    IF acc.err # "none"
    THEN [err |-> acc.err, var |-> acc.var, df |-> NaN, cache |-> x._u]
    ELSE IF acc.var = Zero \/ acc.df = "nan"
    THEN [err |-> "none", var |-> acc.var, df |-> NaN, cache |-> x._u]
    ELSE LET den == WSDen(acc.cpts_lst, acc.dof_lst, acc.var)
         IN  [err |-> "none", var |-> acc.var,
              df |-> IF den = Zero THEN NaN
                     ELSE [kind |-> "num", q |-> RDiv(One, den)],
              cache |-> x._u]

\* the value returned once the loops are over: nan for a zero variance or an
\* illegal correlation, else the Welch-Satterthwaite quotient
WSResult(x, acc) ==
    IF acc.err # "none"
    THEN [err |-> acc.err, var |-> acc.var, df |-> NaN, cache |-> x._u]
    ELSE IF acc.var = Zero \/ acc.df = "nan"
    THEN [err |-> "none", var |-> acc.var, df |-> NaN, cache |-> x._u]
    ELSE LET den == WSDen(acc.cpts_lst, acc.dof_lst, acc.var)
         IN  [err |-> "none", var |-> acc.var,
              df |-> IF den = Zero THEN InfDof
                     ELSE [kind |-> "num", q |-> RDiv(One, den)],
              cache |-> x._u]

\* VarianceAndDof(x.v, df) on the two paths that read x.v
WSFromV(pv, df) == [err |-> pv.err, var |-> pv.val, df |-> df, cache |-> pv.cache]

\* the accumulators before the loops
WSStart ==
    [var |-> Zero, cpts_lst |-> << >>, dof_lst |-> << >>,
     cpts_map |-> << >>, finish_complex |-> FALSE, df |-> "zero", err |-> "none"]

\* welch_satterthwaite(x): [err, var, df, cache]; cache is the value the call
\* leaves in x._u (it reads x.v on two of its paths)
welch_satterthwaite(x) ==
    IF x.is_elementary
    THEN WSFromV(prop_v(x), DofOf(leaves[x._node.uid].df))
    ELSE IF is_uncertain_real_constant(x)
    THEN [err |-> "none", var |-> Zero, df |-> InfDof, cache |-> x._u]
    ELSE
        LET u_cpts == x._u_components
            d_cpts == x._d_components
            d_keys == Keys(d_cpts)
            d_values == [i \in 1..Len(d_keys) |-> d_cpts[d_keys[i]]]
        IN  IF \A k \in DOMAIN u_cpts \cup DOMAIN d_cpts : leaves[k].df = inf
            THEN WSFromV(prop_v(x), InfDof)
            ELSE WSResult(x,
                    WSLists(WSLast(WSDep(WSIndep(WSStart, Keys(u_cpts), u_cpts, 1),
                                         d_keys, d_values),
                                   d_keys, d_values)))

\* return welch_satterthwaite(self)[1]
DfOf(ws) == [err |-> ws.err, val |-> ws.df, cache |-> ws.cache]

\* UncertainReal.df: [err, val, cache]
prop_df(x) ==
    IF x.is_elementary
    THEN [err |-> "none", val |-> DofOf(leaves[x._node.uid].df), cache |-> x._u]
    ELSE DfOf(welch_satterthwaite(x))

(***************************************************************************)
(* Operations.  Every call leaves its record in `ret`.                     *)
(***************************************************************************)
\* what a call returns: None, or a reference to an uncertain number
NoneVal == [kind |-> "None"]
Ref(k) == [kind |-> "UncertainReal", id |-> k]

Call(op, args, err, val) == [op |-> op, args |-> args, err |-> err, val |-> val]

\* Context._next_elementary_id / _next_intermediate_id: a fresh id per call
next_elementary_id == nextE + 1
next_intermediate_id == nextI + 1

\* elementary with the two vectors exchanged: an independent leaf lands in
\* the dependent vector (C8 tells it from the original)
elementary_swapped(uid, x, u, independent) ==
    IF independent
    THEN UncertainReal("None", R(x), Vector, VectorOf(uid, R(u)), Vector, LeafRef(uid))
    ELSE UncertainReal("None", R(x), VectorOf(uid, R(u)), Vector, Vector, LeafRef(uid))

\* the number UncertainReal.elementary returns for the new Leaf uid
elementary(uid, x, u, independent) ==
    IF independent
    THEN UncertainReal("None", R(x), VectorOf(uid, R(u)), Vector, Vector, LeafRef(uid))
    ELSE UncertainReal("None", R(x), Vector, VectorOf(uid, R(u)), Vector, LeafRef(uid))

\* Elementary drawing the id before it validates df and u (C7 tells it from
\* the original)
ElementaryAllocatesFirst(x, u, df, independent) ==
    LET uid == nextE + 1
    IN  IF df < 1 \/ u < 0
        THEN /\ nextE' = uid
             /\ ret' = Call("elementary", [x |-> x, u |-> u, df |-> df, independent |-> independent], "RuntimeError", NoneVal)
             /\ UNCHANGED <<leaves, ens, inodes, nextI, nums, arrs>>
        ELSE /\ nextE' = uid
             /\ leaves' = [k \in DOMAIN leaves \cup {uid} |->
                              IF k = uid THEN new_leaf(uid, R(u), df, independent)
                              ELSE leaves[k]]
             /\ nums' = Append(nums, UncertainReal("None", R(x),
                            IF independent THEN VectorOf(uid, R(u)) ELSE Vector,
                            IF independent THEN Vector ELSE VectorOf(uid, R(u)),
                            Vector, LeafRef(uid)))
             /\ ret' = Call("elementary", [x |-> x, u |-> u, df |-> df, independent |-> independent], "none", Ref(Len(nums) + 1))
             /\ UNCHANGED <<ens, inodes, nextI, arrs>>

\* UncertainReal.elementary(x,u,df,label,independent); the label is not modelled
Elementary(x, u, df, independent) ==
    IF df < 1 \/ u < 0
    THEN /\ ret' = Call("elementary", [x |-> x, u |-> u, df |-> df, independent |-> independent], "RuntimeError", NoneVal)
         /\ UNCHANGED <<leaves, ens, inodes, nextE, nextI, nums, arrs>>
    ELSE LET uid == next_elementary_id
             ln == new_leaf(uid, R(u), df, independent)
             un == elementary(uid, x, u, independent)
         IN  /\ nextE' = uid
             /\ leaves' = [k \in DOMAIN leaves \cup {uid} |->
                              IF k = uid THEN ln ELSE leaves[k]]
             /\ nums' = Append(nums, un)
             /\ ret' = Call("elementary", [x |-> x, u |-> u, df |-> df, independent |-> independent], "none", Ref(Len(nums) + 1))
             /\ UNCHANGED <<ens, inodes, nextI, arrs>>

\* Intermediate without the test for an earlier registration (C9 tells it
\* from the original)
IntermediateAgain(k) ==
    LET un == nums[k] IN
    IF un.is_elementary
    THEN /\ ret' = Call("intermediate", [un |-> k], "none", NoneVal)
         /\ UNCHANGED <<leaves, ens, inodes, nextE, nextI, nums, arrs>>
    ELSE LET uid == nextI + 1
             pu == prop_u(un)
         IN  /\ nextI' = uid
             /\ inodes' = [j \in DOMAIN inodes \cup {uid} |->
                              IF j = uid THEN [uid |-> uid, u |-> pu.val]
                              ELSE inodes[j]]
             /\ nums' = [nums EXCEPT ![k] =
                    [@ EXCEPT !._u = pu.cache,
                              !._node = NodeRef(uid),
                              !._i_components = merge_vectors(@, VectorOf(uid, One)),
                              !.is_intermediate = TRUE]]
             /\ ret' = Call("intermediate", [un |-> k], pu.err, NoneVal)
             /\ UNCHANGED <<leaves, ens, nextE, arrs>>

\* Intermediate without the tests of is_elementary and is_intermediate
\* (C17 tells it from the original)
IntermediateAlways(k) ==
    LET un == nums[k] IN
    IF FALSE
    THEN /\ ret' = Call("intermediate", [un |-> k], "none", NoneVal)
         /\ UNCHANGED <<leaves, ens, inodes, nextE, nextI, nums, arrs>>
    ELSE LET uid == next_intermediate_id
             pu == prop_u(un)
         IN  /\ nextI' = uid
             /\ IF pu.err # "none"
                THEN /\ ret' = Call("intermediate", [un |-> k], pu.err, NoneVal)
                     /\ UNCHANGED <<leaves, ens, inodes, nextE, nums, arrs>>
                ELSE /\ inodes' = [j \in DOMAIN inodes \cup {uid} |->
                                      IF j = uid THEN [uid |-> uid, u |-> pu.val]
                                      ELSE inodes[j]]
                     \* the self-entry u is held as the multiple 1 of Node.u
                     /\ nums' = [nums EXCEPT ![k] =
                            [@ EXCEPT !._u = pu.cache,
                                      !._node = NodeRef(uid),
                                      !._i_components = merge_vectors(@, VectorOf(uid, One)),
                                      !.is_intermediate = TRUE]]
                     /\ ret' = Call("intermediate", [un |-> k], "none", NoneVal)
                     /\ UNCHANGED <<leaves, ens, nextE, arrs>>

\* UncertainReal.intermediate(un,label)
Intermediate(k) ==
    LET un == nums[k] IN
    IF un.is_elementary \/ un.is_intermediate
    THEN /\ ret' = Call("intermediate", [un |-> k], "none", NoneVal)
         /\ UNCHANGED <<leaves, ens, inodes, nextE, nextI, nums, arrs>>
    ELSE LET uid == next_intermediate_id
             pu == prop_u(un)
         IN  /\ nextI' = uid
             /\ IF pu.err # "none"
                THEN /\ ret' = Call("intermediate", [un |-> k], pu.err, NoneVal)
                     /\ UNCHANGED <<leaves, ens, inodes, nextE, nums, arrs>>
                ELSE /\ inodes' = [j \in DOMAIN inodes \cup {uid} |->
                                      IF j = uid THEN [uid |-> uid, u |-> pu.val]
                                      ELSE inodes[j]]
                     \* the self-entry u is held as the multiple 1 of Node.u
                     /\ nums' = [nums EXCEPT ![k] =
                            [@ EXCEPT !._u = pu.cache,
                                      !._node = NodeRef(uid),
                                      !._i_components = merge_vectors(@, VectorOf(uid, One)),
                                      !.is_intermediate = TRUE]]
                     /\ ret' = Call("intermediate", [un |-> k], "none", NoneVal)
                     /\ UNCHANGED <<leaves, ens, nextE, arrs>>

\* a direct call of the constructor, as made when an archived number is
\* restored into context c: the vectors of nums[k], no node
Restore(c, k) ==
    /\ nums' = Append(nums, UncertainReal(c, nums[k]._x, nums[k]._u_components,
                                          nums[k]._d_components, nums[k]._i_components,
                                          NoNode))
    /\ ret' = Call("restore", [context |-> c, x |-> k], "none", Ref(Len(nums) + 1))
    /\ UNCHANGED <<leaves, ens, inodes, nextE, nextI, arrs>>

\* _add keeping only the dependent components of lhs (C10 tells it from the
\* original)
add_drops_rhs_dependent(lhs, rhs) ==
    UncertainReal(lhs._context, RAdd(lhs._x, rhs._x),
                  merge_vectors(lhs._u_components, rhs._u_components),
                  lhs._d_components,
                  merge_vectors(lhs._i_components, rhs._i_components),
                  NoNode)

\* _add whose merge keeps the coefficient of lhs where a key appears in both
\* operands (C11 tells it from the original)
add_keeps_one_coefficient(lhs, rhs) ==
    UncertainReal(lhs._context, RAdd(lhs._x, rhs._x),
                  [k \in DOMAIN lhs._u_components \cup DOMAIN rhs._u_components |->
                      IF k \in DOMAIN lhs._u_components THEN lhs._u_components[k]
                      ELSE rhs._u_components[k]],
                  [k \in DOMAIN lhs._d_components \cup DOMAIN rhs._d_components |->
                      IF k \in DOMAIN lhs._d_components THEN lhs._d_components[k]
                      ELSE rhs._d_components[k]],
                  merge_vectors(lhs._i_components, rhs._i_components),
                  NoNode)

\* _add(lhs,rhs) for two uncertain reals
add(lhs, rhs) ==
    UncertainReal(lhs._context, RAdd(lhs._x, rhs._x),
                  merge_vectors(lhs._u_components, rhs._u_components),
                  merge_vectors(lhs._d_components, rhs._d_components),
                  merge_vectors(lhs._i_components, rhs._i_components),
                  NoNode)

Add(a, b) ==
    /\ nums' = Append(nums, add(nums[a], nums[b]))
    /\ ret' = Call("add", [lhs |-> a, rhs |-> b], "none", Ref(Len(nums) + 1))
    /\ UNCHANGED <<leaves, ens, inodes, nextE, nextI, arrs>>

\* _atan2_re_re(lhs,rhs); math.atan2(y,x) is taken where it is rational:
\* y = 0 and x > 0 give 0
atan2_re_re(lhs, rhs) ==
    LET x == rhs._x
        y == lhs._x
        den == RAdd(RMul(x, x), RMul(y, y))
        dz_dx == IF den = Zero THEN Zero ELSE RDiv(RNeg(y), den)
        dz_dy == IF den = Zero THEN Zero ELSE RDiv(x, den)
    IN  UncertainReal(lhs._context, Zero,
            merge_weighted_vectors(lhs._u_components, dz_dy, rhs._u_components, dz_dx),
            merge_weighted_vectors(lhs._d_components, dz_dy, rhs._d_components, dz_dx),
            merge_weighted_vectors(lhs._i_components, dz_dy, rhs._i_components, dz_dx),
            NoNode)

Atan2(a, b) ==
    IF nums[a]._context # nums[b]._context
    THEN /\ ret' = Call("atan2", [lhs |-> a, rhs |-> b], "AssertionError", NoneVal)
         /\ UNCHANGED <<leaves, ens, inodes, nextE, nextI, nums, arrs>>
    ELSE /\ nums[a]._x = Zero
         /\ RLt(Zero, nums[b]._x)
         /\ nums' = Append(nums, atan2_re_re(nums[a], nums[b]))
         /\ ret' = Call("atan2", [lhs |-> a, rhs |-> b], "none", Ref(Len(nums) + 1))
         /\ UNCHANGED <<leaves, ens, inodes, nextE, nextI, arrs>>

\* _div(lhs,rhs) for a plain real rhs (an integer c here)
div_number(lhs, c) ==
    LET dy_dl == RDiv(One, R(c))
    IN  UncertainReal(lhs._context, RDiv(lhs._x, R(c)),
                      scale_vector(lhs._u_components, dy_dl),
                      scale_vector(lhs._d_components, dy_dl),
                      scale_vector(lhs._i_components, dy_dl),
                      NoNode)

DivNumber(a, c) ==
    IF c = 1
    THEN /\ ret' = Call("div", [lhs |-> a, rhs |-> c], "none", Ref(a))
         /\ UNCHANGED <<leaves, ens, inodes, nextE, nextI, nums, arrs>>
    ELSE IF c = 0
    THEN /\ ret' = Call("div", [lhs |-> a, rhs |-> c], "ZeroDivisionError", NoneVal)
         /\ UNCHANGED <<leaves, ens, inodes, nextE, nextI, nums, arrs>>
    ELSE /\ nums' = Append(nums, div_number(nums[a], c))
         /\ ret' = Call("div", [lhs |-> a, rhs |-> c], "none", Ref(Len(nums) + 1))
         /\ UNCHANGED <<leaves, ens, inodes, nextE, nextI, arrs>>

\* ln.correlation[uid] = r
SetEntry(m, uid, r) == [k \in DOMAIN m \cup {uid} |-> IF k = uid THEN r ELSE m[k]]

\* set_correlation_real writing both maps before it looks at the independent
\* flags (C5 tells it from the original)
SetCorrelationWritesFirst(a, b, r) ==
    LET x1 == nums[a]
        x2 == nums[b]
        ln1 == x1._node.uid
        ln2 == x2._node.uid
    IN  IF x1.is_elementary /\ x2.is_elementary
        THEN /\ leaves' =
                    LET l1 == [leaves EXCEPT ![ln1].correlation = SetEntry(@, ln2, r)]
                    IN  [l1 EXCEPT ![ln2].correlation = SetEntry(@, ln1, r)]
             /\ ret' = Call("set_correlation", [x1 |-> a, x2 |-> b, r |-> r],
                            IF leaves[ln1].independent \/ leaves[ln2].independent
                                \/ (ln1 = ln2 /\ r # One)
                            THEN "RuntimeError" ELSE "none", NoneVal)
             /\ UNCHANGED <<ens, inodes, nextE, nextI, nums, arrs>>
        ELSE /\ ret' = Call("set_correlation", [x1 |-> a, x2 |-> b, r |-> r], "RuntimeError", NoneVal)
             /\ UNCHANGED <<leaves, ens, inodes, nextE, nextI, nums, arrs>>

\* set_correlation_real writing the map of x1 only (C6 tells it from the
\* original)
SetCorrelationOneSided(a, b, r) ==
    LET x1 == nums[a]
        x2 == nums[b]
        ln1 == x1._node.uid
        ln2 == x2._node.uid
    IN  IF x1.is_elementary /\ x2.is_elementary
            /\ ~leaves[ln1].independent /\ ~leaves[ln2].independent
            /\ ~(ln1 = ln2 /\ r # One)
        THEN /\ leaves' = [leaves EXCEPT ![ln1].correlation = SetEntry(@, ln2, r)]
             /\ ret' = Call("set_correlation", [x1 |-> a, x2 |-> b, r |-> r], "none", NoneVal)
             /\ UNCHANGED <<ens, inodes, nextE, nextI, nums, arrs>>
        ELSE /\ ret' = Call("set_correlation", [x1 |-> a, x2 |-> b, r |-> r], "RuntimeError", NoneVal)
             /\ UNCHANGED <<leaves, ens, inodes, nextE, nextI, nums, arrs>>

\* set_correlation_real(x1,x2,r)
SetCorrelation(a, b, r) ==
    LET x1 == nums[a]
        x2 == nums[b]
        ln1 == x1._node.uid
        ln2 == x2._node.uid
    IN  IF x1.is_elementary /\ x2.is_elementary
        THEN IF ~leaves[ln1].independent /\ ~leaves[ln2].independent
             THEN IF ln1 = ln2 /\ r # One
                  THEN /\ ret' = Call("set_correlation", [x1 |-> a, x2 |-> b, r |-> r], "RuntimeError", NoneVal)
                       /\ UNCHANGED <<leaves, ens, inodes, nextE, nextI, nums, arrs>>
                  ELSE /\ leaves' =
                            LET l1 == [leaves EXCEPT ![ln1].correlation = SetEntry(@, ln2, r)]
                            IN  [l1 EXCEPT ![ln2].correlation = SetEntry(@, ln1, r)]
                       /\ ret' = Call("set_correlation", [x1 |-> a, x2 |-> b, r |-> r], "none", NoneVal)
                       /\ UNCHANGED <<ens, inodes, nextE, nextI, nums, arrs>>
             ELSE /\ ret' = Call("set_correlation", [x1 |-> a, x2 |-> b, r |-> r], "RuntimeError", NoneVal)
                  /\ UNCHANGED <<leaves, ens, inodes, nextE, nextI, nums, arrs>>
        ELSE /\ ret' = Call("set_correlation", [x1 |-> a, x2 |-> b, r |-> r], "RuntimeError", NoneVal)
             /\ UNCHANGED <<leaves, ens, inodes, nextE, nextI, nums, arrs>>

\* std_covariance_real(x1,x2)
std_covariance_real(x1, x2) ==
    LET k1u == Keys(x1._u_components)
        k1d == Keys(x1._d_components)
        k2d == Keys(x2._d_components)
        ind == RSum([i \in 1..Len(k1u) |->
                    RMul(x1._u_components[k1u[i]], Get(x2._u_components, k1u[i]))])
        row(i) == RSum([j \in 1..Len(k2d) |->
                    RMul(x1._d_components[k1d[i]],
                         RMul(Corr(k1d[i], k2d[j]), x2._d_components[k2d[j]]))])
    IN  RAdd(ind, RSum([i \in 1..Len(k1d) |-> row(i)]))

\* get_correlation_real(x1,x2): [err, num, den], the float num/den
get_correlation_real(x1, x2) ==
    IF x1.is_elementary /\ x2.is_elementary
    THEN IF x1._node.uid = x2._node.uid
         THEN [err |-> "none", num |-> One, den |-> Exact(One)]
         ELSE [err |-> "none", num |-> Corr(x1._node.uid, x2._node.uid), den |-> Exact(One)]
    ELSE LET v1 == std_variance_real(x1)
             v2 == std_variance_real(x2)
             num == std_covariance_real(x1, x2)
         IN  IF RLt(RMul(v1, v2), Zero)
             THEN [err |-> "ValueError", num |-> Zero, den |-> Exact(One)]
             ELSE IF num = Zero
             THEN [err |-> "none", num |-> Zero, den |-> Exact(One)]
             ELSE IF RMul(v1, v2) = Zero
             THEN [err |-> "ZeroDivisionError", num |-> Zero, den |-> Exact(One)]
             ELSE [err |-> "none", num |-> num, den |-> Sqrt(RMul(v1, v2))]

\* real_ensemble(seq,df) for elementary members; seq is taken as the set of
\* its members
RealEnsemble(seq, df) ==
    IF seq = {}
    THEN /\ ret' = Call("real_ensemble", [seq |-> seq, df |-> df], "none", NoneVal)
         /\ UNCHANGED <<leaves, ens, inodes, nextE, nextI, nums, arrs>>
    ELSE IF \/ \E s \in seq : leaves[nums[s]._node.uid].independent
            \/ \E s \in seq : leaves[nums[s]._node.uid].df # df
            \/ \E s \in seq : ~nums[s].is_elementary
    THEN /\ ret' = Call("real_ensemble", [seq |-> seq, df |-> df], "AssertionError", NoneVal)
         /\ UNCHANGED <<leaves, ens, inodes, nextE, nextI, nums, arrs>>
    ELSE LET ensemble == {UidElem(nums[s]._node.uid) : s \in seq}
             members == {nums[s]._node.uid : s \in seq}
         IN  /\ ens' = Append(ens, ensemble)
             /\ leaves' = [k \in DOMAIN leaves |->
                              IF k \in members
                              THEN [leaves[k] EXCEPT !.ensemble = Len(ens) + 1]
                              ELSE leaves[k]]
             /\ ret' = Call("real_ensemble", [seq |-> seq, df |-> df], "none", NoneVal)
             /\ UNCHANGED <<inodes, nextE, nextI, nums, arrs>>

\* append_real_ensemble(member,x) for elementary member and x, the member
\* belonging to a declared ensemble
AppendRealEnsemble(m, x) ==
    LET member == leaves[nums[m]._node.uid]
        xn == leaves[nums[x]._node.uid]
    IN  IF xn.df # member.df \/ ~nums[x].is_elementary \/ xn.independent
        THEN /\ ret' = Call("append_real_ensemble", [member |-> m, x |-> x], "AssertionError", NoneVal)
             /\ UNCHANGED <<leaves, ens, inodes, nextE, nextI, nums, arrs>>
        ELSE \* member._node.ensemble.add(x._node): the Leaf object goes in
             /\ ens' = [ens EXCEPT ![member.ensemble] = @ \cup {LeafElem(xn.uid)}]
             /\ leaves' = [leaves EXCEPT ![xn.uid].ensemble = member.ensemble]
             /\ ret' = Call("append_real_ensemble", [member |-> m, x |-> x], "none", NoneVal)
             /\ UNCHANGED <<inodes, nextE, nextI, nums, arrs>>

\* reading x.u, x.v and x.df: the value is returned and self._u may be set
ReadU(k) ==
    LET p == prop_u(nums[k])
    IN  /\ nums' = [nums EXCEPT ![k]._u = p.cache]
        /\ ret' = Call("u", [x |-> k], p.err, p.val)
        /\ UNCHANGED <<leaves, ens, inodes, nextE, nextI, arrs>>

ReadV(k) ==
    LET p == prop_v(nums[k])
    IN  /\ nums' = [nums EXCEPT ![k]._u = p.cache]
        /\ ret' = Call("v", [x |-> k], p.err, p.val)
        /\ UNCHANGED <<leaves, ens, inodes, nextE, nextI, arrs>>

ReadDf(k) ==
    LET p == prop_df(nums[k])
    IN  /\ nums' = [nums EXCEPT ![k]._u = p.cache]
        /\ ret' = Call("df", [x |-> k], p.err, p.val)
        /\ UNCHANGED <<leaves, ens, inodes, nextE, nextI, arrs>>

(***************************************************************************)
(* The state after import: an empty registry and no uncertain numbers      *)
(***************************************************************************)
Init ==
    /\ leaves = << >>
    /\ ens = << >>
    /\ inodes = << >>
    /\ nextE = 0
    /\ nextI = 0
    /\ nums = << >>
    /\ arrs = << >>
    /\ ret = Call("init", [x |-> None], "none", NoneVal)

Ids == 1..Len(nums)
ElemIds == {k \in Ids : nums[k].is_elementary}

(***************************************************************************)
(* Spec: the registry operations on a few leaves                           *)
(***************************************************************************)
XIn == {0, 2}
RIn == {Rat(-1, 2), One}
CtxIn == {"c2"}

Next ==
    \/ \E x \in XIn, ind \in BOOLEAN :
            /\ Len(nums) < MaxNums /\ nextE < MaxLeaves
            /\ Elementary(x, 3, inf, ind)
    \/ \E k \in Ids : nextI < MaxLeaves /\ Intermediate(k)
    \/ \E c \in CtxIn, k \in Ids : Len(nums) < MaxNums /\ Restore(c, k)
    \/ \E a, b \in Ids : Len(nums) < MaxNums /\ Add(a, b)
    \/ \E a, b \in Ids : Len(nums) < MaxNums /\ Atan2(a, b)
    \/ \E a, b \in Ids, r \in RIn : SetCorrelation(a, b, r)
    \/ \E k \in Ids : ReadU(k)

Spec == Init /\ [][Next]_vars

(***************************************************************************)
(* SpecElem: declarations of elementary numbers, valid and invalid, and    *)
(* reads of their attributes                                               *)
(***************************************************************************)
UIn == {-1, 0, 3}
DfIn == {0, 2, inf}

NextElem ==
    \/ \E x \in XIn, u \in UIn, df \in DfIn, ind \in BOOLEAN :
            /\ Len(nums) < MaxNums /\ nextE < MaxLeaves
            /\ Elementary(x, u, df, ind)
    \/ \E k \in Ids : ReadU(k)
    \/ \E k \in Ids : ReadV(k)
    \/ \E k \in Ids : ReadDf(k)

SpecElem == Init /\ [][NextElem]_vars

(***************************************************************************)
(* SpecWS: sums of WSLeaves declared leaves with finite and  *)
(* infinite degrees of freedom, their correlations and ensembles.  It      *)
(* starts from the registry the declarations leave behind.                 *)
(***************************************************************************)
\* the declarations <<u, df, independent>> a leaf is drawn from
LeafWS == {<<1, 2, FALSE>>, <<2, 2, FALSE>>, <<1, inf, FALSE>>, <<2, 2, TRUE>>}
DfWS == {2, inf}
RWS == {R(-1)}

InitWS ==
    \E d \in [1..WSLeaves -> LeafWS] :
        /\ leaves = [k \in 1..WSLeaves |-> new_leaf(k, R(d[k][1]), d[k][2], d[k][3])]
        /\ nums = [k \in 1..WSLeaves |-> elementary(k, 1, d[k][1], d[k][3])]
        /\ nextE = WSLeaves
        /\ ens = << >>
        /\ inodes = << >>
        /\ nextI = 0
        /\ arrs = << >>
        /\ ret = Call("init", [x |-> None], "none", NoneVal)

DepIds == {k \in ElemIds : ~leaves[nums[k]._node.uid].independent}

NextWS ==
    \/ \E a, b \in Ids : Len(nums) < WSNums /\ a < b /\ Add(a, b)
    \/ \E a, b \in DepIds, r \in RWS : a < b /\ SetCorrelation(a, b, r)
    \/ \E seq \in SUBSET DepIds, df \in DfWS : Len(ens) < MaxEns /\ RealEnsemble(seq, df)
    \/ \E m, x \in DepIds :
            /\ leaves[nums[m]._node.uid].ensemble # None
            /\ AppendRealEnsemble(m, x)
    \/ \E k \in Ids \ ElemIds : ReadDf(k)

SpecWS == InitWS /\ [][NextWS]_vars

(***************************************************************************)
(* Claims about the degrees of freedom and the ensembles (SpecWS)          *)
(***************************************************************************)
\* a derived, non-constant uncertain real
Derived(x) == ~x.is_elementary /\ ~is_uncertain_real_constant(x)

FiniteDep(i) == ~leaves[i].independent /\ leaves[i].df # inf

\* the leaves i and j refer to one declared ensemble set
SameEnsemble(i, j) ==
    leaves[i].ensemble # None /\ leaves[i].ensemble = leaves[j].ensemble

ComplexPair(i, j) == leaves[i].complex = <<i, j>> \/ leaves[i].complex = <<j, i>>

\* two finite-dof dependent influences of x are correlated without excuse
IllegalPair(x) ==
    \E i, j \in DOMAIN x._d_components :
        /\ i # j
        /\ FiniteDep(i) /\ FiniteDep(j)
        /\ j \in DOMAIN leaves[i].correlation
        /\ ~SameEnsemble(i, j)
        /\ ~ComplexPair(i, j)

\* C1: reading the degrees of freedom of a derived number with an illegal
\* correlation among its influences returns NaN and does not raise.
C1_IllegalCorrelationGivesNaN ==
    (ret.op = "df" /\ IllegalPair(nums[ret.args.x]))
        => (ret.err = "none" /\ ret.val = NaN)

\* every influence of x is a dependent leaf of the one ensemble, of finite dof nu
AllInEnsemble(x, nu) ==
    /\ DOMAIN x._u_components = {}
    /\ DOMAIN x._d_components # {}
    /\ \A i, j \in DOMAIN x._d_components : SameEnsemble(i, j)
    /\ \A i \in DOMAIN x._d_components : leaves[i].df = nu
    /\ nu # inf

\* C2: a derived number all of whose influences are leaves of one ensemble
\* with finite dof nu, and whose variance is not zero, has dof nu.
C2_EnsembleDof ==
    \A k \in Ids : \A nu \in DfWS :
        (Derived(nums[k]) /\ AllInEnsemble(nums[k], nu)
            /\ std_variance_real(nums[k]) # Zero)
        => LET ws == welch_satterthwaite(nums[k])
           IN  ws.err = "none" /\ ws.df = DofOf(nu)

\* C3: the leaf of every member of an ensemble refers to the one set, which
\* holds the uid of every member, the appended ones included.
C3_EnsembleHoldsEveryUid ==
    /\ \A k \in DOMAIN leaves :
            leaves[k].ensemble # None => UidElem(k) \in EnsembleOf(k)
    /\ (ret.op = "append_real_ensemble" /\ ret.err = "none")
            => SameEnsemble(nums[ret.args.member]._node.uid, nums[ret.args.x]._node.uid)

(***************************************************************************)
(* SpecSum: sums and means of SumLeaves declared leaves of infinite dof,    *)
(* their correlations and reads of the variance.  It starts from the        *)
(* registry the declarations leave behind.                                  *)
(***************************************************************************)
\* the declarations <<u, independent>> a leaf is drawn from
LeafSum == {<<1, FALSE>>, <<2, TRUE>>}
RSumIn == {Rat(1, 2)}
DivIn == {2, 3}

InitSum ==
    \E d \in [1..SumLeaves -> LeafSum] :
        /\ leaves = [k \in 1..SumLeaves |-> new_leaf(k, R(d[k][1]), inf, d[k][2])]
        /\ nums = [k \in 1..SumLeaves |-> elementary(k, 1, d[k][1], d[k][2])]
        /\ nextE = SumLeaves
        /\ ens = << >>
        /\ inodes = << >>
        /\ nextI = 0
        /\ arrs = << >>
        /\ ret = Call("init", [x |-> None], "none", NoneVal)

NextSum ==
    \/ \E a, b \in Ids : Len(nums) < SumNums /\ a < b /\ Add(a, b)
    \/ \E a \in Ids \ ElemIds, c \in DivIn : Len(nums) < SumNums /\ DivNumber(a, c)
    \/ \E a, b \in DepIds, r \in RSumIn : a < b /\ SetCorrelation(a, b, r)
    \/ \E k \in Ids \ ElemIds : ReadV(k)

SpecSum == InitSum /\ [][NextSum]_vars

(***************************************************************************)
(* Claims about the registry operations (Spec)                             *)
(***************************************************************************)
\* the uid of the node of number k
UidOf(k) == nums[k]._node.uid

\* C4: an operation on two numbers of different contexts fails instead of
\* returning a result.
C4_MixedContextsFail ==
    (ret.op \in {"add", "atan2"}
        /\ nums[ret.args.lhs]._context # nums[ret.args.rhs]._context)
    => ret.err # "none"

\* the cases in which set_correlation(x1,x2,r) must be refused
BadCorrelationCall(a, b, r) ==
    \/ ~nums[a].is_elementary
    \/ ~nums[b].is_elementary
    \/ leaves[UidOf(a)].independent
    \/ leaves[UidOf(b)].independent
    \/ (UidOf(a) = UidOf(b) /\ r # One)

\* C5: set_correlation raises when an operand is not elementary, when a leaf
\* is independent, or when both are the same leaf and r # 1; in these cases
\* no correlation map changes.
C5_SetCorrelationErrors ==
    [][ (ret'.op = "set_correlation"
            /\ BadCorrelationCall(ret'.args.x1, ret'.args.x2, ret'.args.r))
        => /\ ret'.err = "RuntimeError"
           /\ DOMAIN leaves' = DOMAIN leaves
           /\ \A k \in DOMAIN leaves : leaves'[k].correlation = leaves[k].correlation
      ]_vars

\* a refused set_correlation call made when a correlation is registered
C5_Witness ==
    /\ ret.op = "set_correlation"
    /\ ret.err = "RuntimeError"
    /\ \E k \in DOMAIN leaves : DOMAIN leaves[k].correlation \ {k} # {}

DistinctDependent(a, b) ==
    /\ nums[a].is_elementary /\ nums[b].is_elementary
    /\ UidOf(a) # UidOf(b)
    /\ ~leaves[UidOf(a)].independent /\ ~leaves[UidOf(b)].independent

\* get_correlation returns r for the pair in both argument orders
GetsBoth(a, b, r) ==
    LET want == [err |-> "none", num |-> r, den |-> Exact(One)]
    IN  /\ get_correlation_real(nums[a], nums[b]) = want
        /\ get_correlation_real(nums[b], nums[a]) = want

\* the two maps of every pair of leaves hold equal entries for each other
SymmetricMaps ==
    \A i, j \in DOMAIN leaves :
        /\ (j \in DOMAIN leaves[i].correlation) <=> (i \in DOMAIN leaves[j].correlation)
        /\ (j \in DOMAIN leaves[i].correlation)
                => leaves[i].correlation[j] = leaves[j].correlation[i]

\* the entry of leaf i for leaf j in the registry l
CorrEntry(l, i, j) ==
    IF j \in DOMAIN l[i].correlation THEN <<TRUE, l[i].correlation[j]>>
    ELSE <<FALSE, Zero>>

\* C6: after set_correlation(x1,x2,r) on distinct dependent elementary
\* numbers, get_correlation gives r in both orders; the maps are symmetric;
\* an entry changes only by a successful set_correlation on its pair, so the
\* value read is that of the most recent call.
C6_CorrelationRoundTrip ==
    /\ [] ( (ret.op = "set_correlation"
                /\ DistinctDependent(ret.args.x1, ret.args.x2))
            => (ret.err = "none" /\ GetsBoth(ret.args.x1, ret.args.x2, ret.args.r)) )
    /\ [] SymmetricMaps
    /\ [][ \A i, j \in DOMAIN leaves :
            (i # j /\ CorrEntry(leaves', i, j) # CorrEntry(leaves, i, j))
            => /\ ret'.op = "set_correlation"
               /\ ret'.err = "none"
               /\ {UidOf(ret'.args.x1), UidOf(ret'.args.x2)} = {i, j}
               /\ CorrEntry(leaves', i, j) = <<TRUE, ret'.args.r>>
         ]_vars

\* the state after a successful call with r = -1/2 on two distinct dependent
\* leaves
C6_Witness ==
    /\ ret.op = "set_correlation"
    /\ ret.err = "none"
    /\ DistinctDependent(ret.args.x1, ret.args.x2)
    /\ ret.args.r = Rat(-1, 2)
    /\ GetsBoth(ret.args.x1, ret.args.x2, Rat(-1, 2))

\* C9: registering a number that is already intermediate, or an elementary
\* number, allocates no id and changes neither the number nor the registry;
\* a registered number holds one self-entry, the multiple 1 of the
\* uncertainty its node took at the first registration.
C9_IntermediateIdempotent ==
    [][ ret'.op = "intermediate" =>
        LET k == ret'.args.un
        IN  /\ (nums[k].is_intermediate \/ nums[k].is_elementary)
                => /\ ret'.err = "none"
                   /\ UNCHANGED <<leaves, ens, inodes, nextE, nextI, nums>>
            /\ (~nums[k].is_intermediate /\ ~nums[k].is_elementary /\ ret'.err = "none")
                => /\ nextI' = nextI + 1
                   /\ nums'[k]._node = NodeRef(nextI')
                   /\ inodes'[nextI'].u = prop_u(nums[k]).val
            /\ nums'[k].is_intermediate
                => /\ nums'[k]._node.uid \in DOMAIN nums'[k]._i_components
                   /\ nums'[k]._i_components[nums'[k]._node.uid] = One
                   /\ nums'[k]._node.uid \in DOMAIN inodes'
      ]_vars

\* number k registered, a later number built from it, and k registered again
C9_Witness ==
    /\ ret.op = "intermediate"
    /\ nums[ret.args.un].is_intermediate
    /\ \E j \in Ids :
            /\ j > ret.args.un
            /\ UidOf(ret.args.un) \in DOMAIN nums[j]._i_components

(***************************************************************************)
(* Claims about elementary declarations (SpecElem)                         *)
(***************************************************************************)
\* C7: elementary fails when df < 1 or u < 0 and then allocates no id and
\* adds no leaf; a successful call allocates exactly one id, new to the
\* registry and to every id handed out before.
C7_ElementaryValidatesFirst ==
    [][ ret'.op = "elementary" =>
        IF ret'.args.df < 1 \/ ret'.args.u < 0
        THEN /\ ret'.err = "RuntimeError"
             /\ nextE' = nextE
             /\ leaves' = leaves
             /\ nums' = nums
        ELSE /\ ret'.err = "none"
             /\ nextE' \notin 1..nextE
             /\ nextE' \notin DOMAIN leaves
             /\ DOMAIN leaves' = DOMAIN leaves \cup {nextE'}
             /\ \A k \in DOMAIN leaves : leaves'[k] = leaves[k]
             /\ Len(nums') = Len(nums) + 1
             /\ nums'[Len(nums')]._node = LeafRef(nextE')
      ]_vars

\* a refused declaration made after a successful one
C7_Witness ==
    /\ ret.op = "elementary"
    /\ ret.err = "RuntimeError"
    /\ nextE = 1
    /\ DOMAIN leaves = {1}

\* number k holds exactly the entry uid -> u, in the vector its leaf's
\* independence selects
OneEntry(k) ==
    LET un == nums[k]
        ln == leaves[un._node.uid]
        own == IF ln.independent THEN un._u_components ELSE un._d_components
        other == IF ln.independent THEN un._d_components ELSE un._u_components
    IN  /\ DOMAIN own = {ln.uid}
        /\ own[ln.uid] = ln.u
        /\ DOMAIN other = {}
        /\ DOMAIN un._i_components = {}

\* C8: a successfully created elementary number reports x, u and df as
\* declared and v = u*u, is flagged elementary, and holds one sensitivity
\* entry, in the independent or the dependent vector as declared.
C8_ElementaryReports ==
    /\ (ret.op = "elementary" /\ ret.err = "none") =>
            LET un == nums[ret.val.id]
                ln == leaves[un._node.uid]
            IN  /\ un._x = R(ret.args.x)
                /\ ln.u = R(ret.args.u)
                /\ ln.df = ret.args.df
                /\ ln.independent = ret.args.independent
                /\ un.is_elementary /\ ~un.is_intermediate
    /\ \A k \in ElemIds :
            LET un == nums[k]
                ln == leaves[un._node.uid]
            IN  /\ OneEntry(k)
                /\ prop_u(un).err = "none" /\ prop_u(un).val = Exact(ln.u)
                /\ prop_v(un).err = "none" /\ prop_v(un).val = RMul(ln.u, ln.u)
                /\ prop_df(un).err = "none" /\ prop_df(un).val = DofOf(ln.df)
    /\ (ret.op \in {"u", "v", "df"} /\ nums[ret.args.x].is_elementary) =>
            LET ln == leaves[UidOf(ret.args.x)]
            IN  /\ ret.err = "none"
                /\ ret.op = "u" => ret.val = Exact(ln.u)
                /\ ret.op = "v" => ret.val = RMul(ln.u, ln.u)
                /\ ret.op = "df" => ret.val = DofOf(ln.df)

\* an independent number declared after a dependent one, and its variance read
C8_Witness ==
    /\ ret.op = "v"
    /\ ret.val = R(9)
    /\ Len(nums) = 2
    /\ ~leaves[UidOf(1)].independent
    /\ leaves[UidOf(2)].independent
    /\ ret.args.x = 2

(***************************************************************************)
(* Claims about sums (SpecSum)                                             *)
(***************************************************************************)
Influences(x) == DOMAIN x._u_components \cup DOMAIN x._d_components

\* a and b share no influence
NoShared(a, b) == Influences(a) \cap Influences(b) = {}

\* no influence of a has a registered correlation with an influence of b
NoCross(a, b) ==
    \A i \in DOMAIN a._d_components, j \in DOMAIN b._d_components :
        /\ j \notin DOMAIN leaves[i].correlation
        /\ i \notin DOMAIN leaves[j].correlation

\* no two influences of x have a registered correlation
NoCorrelation(x) ==
    \A i, j \in DOMAIN x._d_components :
        i # j => j \notin DOMAIN leaves[i].correlation

\* x is the sum of n distinct elementary numbers of uncertainty u
SumOfElementary(x, n, u) ==
    /\ Cardinality(Influences(x)) = n
    /\ \A i \in DOMAIN x._u_components : x._u_components[i] = u /\ leaves[i].u = u
    /\ \A i \in DOMAIN x._d_components : x._d_components[i] = u /\ leaves[i].u = u

\* C10: the variance of a+b is the sum of the variances of a and b when they
\* share no influence and their influences are not correlated with each
\* other (also as read from .v when no influence is correlated at all); the
\* mean of n uncorrelated elementary numbers of uncertainty u has variance
\* u*u/n.
C10_VarianceAdditive ==
    /\ (ret.op = "add" /\ NoShared(nums[ret.args.lhs], nums[ret.args.rhs])
            /\ NoCross(nums[ret.args.lhs], nums[ret.args.rhs]))
        => LET a == nums[ret.args.lhs]
               b == nums[ret.args.rhs]
               y == nums[ret.val.id]
           IN  /\ std_variance_real(y)
                    = RAdd(std_variance_real(a), std_variance_real(b))
               /\ NoCorrelation(y)
                    => /\ prop_v(y).err = "none"
                       /\ prop_v(y).val = RAdd(prop_v(a).val, prop_v(b).val)
    /\ (ret.op = "div" /\ ret.err = "none") =>
            \A u \in {One, R(2)} :
                LET s == nums[ret.args.lhs]
                    n == ret.args.rhs
                    y == nums[ret.val.id]
                IN  (SumOfElementary(s, n, u) /\ NoCorrelation(s))
                    => std_variance_real(y) = RDiv(RMul(u, u), R(n))

\* the mean of three elementary numbers of uncertainty 2 was taken
C10_Witness ==
    /\ ret.op = "div"
    /\ ret.args.rhs = 3
    /\ SumOfElementary(nums[ret.args.lhs], 3, R(2))
    /\ NoCorrelation(nums[ret.args.lhs])
    /\ std_variance_real(nums[ret.val.id]) = Rat(4, 3)

(***************************************************************************)
(* Arithmetic with plain numbers, products, powers, magnitude and phase    *)
(***************************************************************************)
\* l**n for an integer n >= 0
RECURSIVE RPow(_, _)
RPow(l, n) == IF n = 0 THEN One ELSE RMul(l, RPow(l, n - 1))

\* UncertainReal.constant(x): no context, empty vectors, a Leaf without uid
constant(x) == UncertainReal("None", x, Vector, Vector, Vector, LeafRef(None))

\* UncertainReal(un._context, x, scale_vector(...,c) three times)
scaled(un, x, c) ==
    UncertainReal(un._context, x,
                  scale_vector(un._u_components, c),
                  scale_vector(un._d_components, c),
                  scale_vector(un._i_components, c),
                  NoNode)

\* _add(lhs,rhs) and _radd(lhs,rhs) for a plain real (an integer c here)
add_number(lhs, c) == scaled(lhs, RAdd(lhs._x, R(c)), One)
radd_number(c, rhs) == scaled(rhs, RAdd(R(c), rhs._x), One)

\* _sub(lhs,rhs) for a plain real rhs
sub_number(lhs, c) == scaled(lhs, RAdd(lhs._x, RNeg(R(c))), One)

\* UncertainReal.__neg__
neg(un) == scaled(un, RNeg(un._x), R(-1))

\* UncertainReal.__pos__: a copy of the vectors, no node
pos(un) ==
    UncertainReal(un._context, un._x, un._u_components, un._d_components,
                  un._i_components, NoNode)

\* _mul(lhs,rhs) for two uncertain reals
mul(lhs, rhs) ==
    UncertainReal(lhs._context, RMul(lhs._x, rhs._x),
        merge_weighted_vectors(lhs._u_components, rhs._x, rhs._u_components, lhs._x),
        merge_weighted_vectors(lhs._d_components, rhs._x, rhs._d_components, lhs._x),
        merge_weighted_vectors(lhs._i_components, rhs._x, rhs._i_components, lhs._x),
        NoNode)

\* _mul(lhs,rhs) and _rmul(lhs,rhs) for a plain real
mul_number(lhs, c) == scaled(lhs, RMul(lhs._x, R(c)), R(c))
rmul_number(c, rhs) == scaled(rhs, RMul(R(c), rhs._x), R(c))

\* _pow with the derivative n * l**n (C12 tells it from the original)
pow_number_wrong_derivative(lhs, n) ==
    scaled(lhs, RPow(lhs._x, n), RMul(R(n), RPow(lhs._x, n)))

\* _pow(lhs,rhs) for a plain real rhs (an integer n >= 2 here)
pow_number(lhs, n) ==
    scaled(lhs, RPow(lhs._x, n), RMul(R(n), RPow(lhs._x, n - 1)))

\* UncertainReal._magnitude for x # 0
magnitude(un) ==
    scaled(un, IF RLt(un._x, Zero) THEN RNeg(un._x) ELSE un._x,
           IF RLt(un._x, Zero) THEN R(-1) ELSE One)

\* a call returning a new uncertain real
NewNumber(op, args, un) ==
    /\ nums' = Append(nums, un)
    /\ ret' = Call(op, args, "none", Ref(Len(nums) + 1))
    /\ UNCHANGED <<leaves, ens, inodes, nextE, nextI, arrs>>

\* a call returning the object k it was given
SameNumber(op, args, k) ==
    /\ ret' = Call(op, args, "none", Ref(k))
    /\ UNCHANGED <<leaves, ens, inodes, nextE, nextI, nums, arrs>>

\* a call that raises
Raises(op, args, err) ==
    /\ ret' = Call(op, args, err, NoneVal)
    /\ UNCHANGED <<leaves, ens, inodes, nextE, nextI, nums, arrs>>

\* AddNumber without the test for rhs == 0.0 (C15 tells it from the original)
AddNumberAlwaysNew(a, c) ==
    NewNumber("add_number", [lhs |-> a, rhs |-> c], add_number(nums[a], c))

\* x + c
AddNumber(a, c) ==
    IF c = 0 THEN SameNumber("add_number", [lhs |-> a, rhs |-> c], a)
    ELSE NewNumber("add_number", [lhs |-> a, rhs |-> c], add_number(nums[a], c))

\* c + x
RAddNumber(c, a) ==
    IF c = 0 THEN SameNumber("radd_number", [lhs |-> c, rhs |-> a], a)
    ELSE NewNumber("radd_number", [lhs |-> c, rhs |-> a], radd_number(c, nums[a]))

\* x - c
SubNumber(a, c) ==
    IF c = 0 THEN SameNumber("sub_number", [lhs |-> a, rhs |-> c], a)
    ELSE NewNumber("sub_number", [lhs |-> a, rhs |-> c], sub_number(nums[a], c))

\* x * c
MulNumber(a, c) ==
    IF c = 1 THEN SameNumber("mul_number", [lhs |-> a, rhs |-> c], a)
    ELSE NewNumber("mul_number", [lhs |-> a, rhs |-> c], mul_number(nums[a], c))

\* c * x
RMulNumber(c, a) ==
    IF c = 1 THEN SameNumber("rmul_number", [lhs |-> c, rhs |-> a], a)
    ELSE NewNumber("rmul_number", [lhs |-> c, rhs |-> a], rmul_number(c, nums[a]))

\* x * y
Mul(a, b) == NewNumber("mul", [lhs |-> a, rhs |-> b], mul(nums[a], nums[b]))

\* x ** n for an integer n >= 0; x ** 0 is the float 1.0
PowNumber(a, n) ==
    IF n = 0
    THEN /\ ret' = Call("pow_number", [lhs |-> a, rhs |-> n], "none",
                        [kind |-> "float", q |-> One])
         /\ UNCHANGED <<leaves, ens, inodes, nextE, nextI, nums, arrs>>
    ELSE IF n = 1 THEN SameNumber("pow_number", [lhs |-> a, rhs |-> n], a)
    ELSE NewNumber("pow_number", [lhs |-> a, rhs |-> n], pow_number(nums[a], n))

\* a negation that overwrites its operand (C18 tells it from the original)
NegInPlace(a) ==
    /\ nums' = [nums EXCEPT ![a] = neg(nums[a])]
    /\ ret' = Call("neg", [x |-> a], "none", Ref(a))
    /\ UNCHANGED <<leaves, ens, inodes, nextE, nextI, arrs>>

\* -x and +x
Neg(a) == NewNumber("neg", [x |-> a], neg(nums[a]))
Pos(a) == NewNumber("pos", [x |-> a], pos(nums[a]))

\* magnitude(x)
Magnitude(a) ==
    IF nums[a]._x = Zero THEN Raises("magnitude", [x |-> a], "ZeroDivisionError")
    ELSE NewNumber("magnitude", [x |-> a], magnitude(nums[a]))

\* phase(x): the constant 0, whatever the value of x
Phase(a) == NewNumber("phase", [x |-> a], constant(Zero))

(***************************************************************************)
(* SpecArith: arithmetic on ArithLeaves declared leaves                    *)
(***************************************************************************)
\* the declarations <<x, u, independent>> a leaf is drawn from
LeafArith == {<<0, 1, FALSE>>, <<2, 1, TRUE>>, <<-1, 2, FALSE>>}
NumIn == {0, 1, 2}
PowIn == {0, 1, 2, 3}

InitArith ==
    \E d \in [1..ArithLeaves -> LeafArith] :
        /\ leaves = [k \in 1..ArithLeaves |-> new_leaf(k, R(d[k][2]), inf, d[k][3])]
        /\ nums = [k \in 1..ArithLeaves |-> elementary(k, d[k][1], d[k][2], d[k][3])]
        /\ nextE = ArithLeaves
        /\ ens = << >>
        /\ inodes = << >>
        /\ nextI = 0
        /\ arrs = << >>
        /\ ret = Call("init", [x |-> None], "none", NoneVal)

NextArith ==
    \/ \E a, b \in Ids : Len(nums) < ArithNums /\ a <= b /\ Add(a, b)
    \/ \E a, b \in Ids : Len(nums) < ArithNums /\ a <= b /\ Mul(a, b)
    \/ \E a \in Ids, c \in NumIn : Len(nums) < ArithNums /\ AddNumber(a, c)
    \/ \E a \in Ids, c \in NumIn : Len(nums) < ArithNums /\ RAddNumber(c, a)
    \/ \E a \in Ids, c \in NumIn : Len(nums) < ArithNums /\ SubNumber(a, c)
    \/ \E a \in Ids, c \in NumIn : Len(nums) < ArithNums /\ MulNumber(a, c)
    \/ \E a \in Ids, c \in NumIn : Len(nums) < ArithNums /\ RMulNumber(c, a)
    \/ \E a \in Ids, c \in NumIn : Len(nums) < ArithNums /\ DivNumber(a, c)
    \/ \E a \in Ids, n \in PowIn : Len(nums) < ArithNums /\ PowNumber(a, n)
    \/ \E a \in Ids : Len(nums) < ArithNums /\ Neg(a)
    \/ \E a \in Ids : Len(nums) < ArithNums /\ Pos(a)
    \/ \E a \in Ids : Len(nums) < ArithNums /\ Magnitude(a)
    \/ \E a \in Ids : Len(nums) < ArithNums /\ Phase(a)
    \/ \E k \in Ids :
            /\ nextI < 1 \/ nums[k].is_elementary \/ nums[k].is_intermediate
            /\ Intermediate(k)

SpecArith == InitArith /\ [][NextArith]_vars

(***************************************************************************)
(* Claims about arithmetic (SpecArith)                                     *)
(***************************************************************************)
\* the three sensitivity vectors of x and y are the same
SameVectors(x, y) ==
    /\ x._u_components = y._u_components
    /\ x._d_components = y._d_components
    /\ x._i_components = y._i_components

\* vector y has exactly the keys of l and r, each with the sum of the two
\* coefficients
IsSum(y, l, r) ==
    /\ DOMAIN y = DOMAIN l \cup DOMAIN r
    /\ \A k \in DOMAIN y : y[k] = RAdd(Get(l, k), Get(r, k))

\* the entry of x for the elementary influence e: its component of
\* uncertainty with respect to e, with the sign of the coefficient
Entry(x, e) == RAdd(Get(x._u_components, e), Get(x._d_components, e))

\* C11: an influence of both operands of an addition has one key in the
\* result, with the sum of the two coefficients; x + x has the vectors of
\* 2*x; and the quotient by n of a number whose entry for e is n times e.u
\* (the sum of n numbers of coefficient 1 for e) has the entry e.u for e.
C11_SharedInfluenceAdds ==
    /\ (ret.op = "add" /\ ret.err = "none") =>
            LET y == nums[ret.val.id]
                l == nums[ret.args.lhs]
                r == nums[ret.args.rhs]
            IN  /\ IsSum(y._u_components, l._u_components, r._u_components)
                /\ IsSum(y._d_components, l._d_components, r._d_components)
                /\ IsSum(y._i_components, l._i_components, r._i_components)
                /\ ret.args.lhs = ret.args.rhs => SameVectors(y, rmul_number(2, l))
    /\ (ret.op = "div" /\ ret.err = "none" /\ ret.args.rhs > 1) =>
            \A e \in DOMAIN leaves :
                Entry(nums[ret.args.lhs], e) = RMul(R(ret.args.rhs), leaves[e].u)
                    => Entry(nums[ret.val.id], e) = leaves[e].u

\* the mean of e + e, for a leaf e of uncertainty 2, has been taken
C11_Witness ==
    /\ ret.op = "div" /\ ret.err = "none" /\ ret.args.rhs = 2
    /\ \E e \in ElemIds :
            /\ leaves[UidOf(e)].u = R(2)
            /\ SameVectors(nums[ret.args.lhs], rmul_number(2, nums[e]))
            /\ Entry(nums[ret.val.id], UidOf(e)) = R(2)

\* |q|
RAbs(q) == [n |-> Abs(q.n), d |-> q.d]

\* vector y is vector v with every coefficient multiplied by c
IsScaled(y, v, c) ==
    /\ DOMAIN y = DOMAIN v
    /\ \A k \in DOMAIN y : y[k] = RMul(c, v[k])

\* C12: x**n for an integer n >= 2 has the value a^n and the vectors of x
\* multiplied by n*a^(n-1); for an elementary x its uncertainty is
\* |n*a^(n-1)|*x.u; x**2 has the value and the vectors of x*x.
C12_PowerRule ==
    (ret.op = "pow_number" /\ ret.args.rhs >= 2) =>
        LET x == nums[ret.args.lhs]
            n == ret.args.rhs
            y == nums[ret.val.id]
            c == RMul(R(n), RPow(x._x, n - 1))
        IN  /\ ret.err = "none"
            /\ y._x = RPow(x._x, n)
            /\ IsScaled(y._u_components, x._u_components, c)
            /\ IsScaled(y._d_components, x._d_components, c)
            /\ IsScaled(y._i_components, x._i_components, c)
            /\ x.is_elementary =>
                    prop_u(y).val = Exact(RMul(RAbs(c), leaves[x._node.uid].u))
            /\ n = 2 => (y._x = mul(x, x)._x /\ SameVectors(y, mul(x, x)))

\* the cube of an elementary number of value 2 and uncertainty 1: 8 and 12
C12_Witness ==
    /\ ret.op = "pow_number" /\ ret.args.rhs = 3
    /\ nums[ret.args.lhs].is_elementary
    /\ nums[ret.args.lhs]._x = R(2)
    /\ nums[ret.val.id]._x = R(8)
    /\ prop_u(nums[ret.val.id]).val = Exact(R(12))

\* C13: the phase of a zero-valued uncertain real is refused: an error is
\* raised and no uncertain number is returned.
C13_PhaseOfZeroRejected ==
    (ret.op = "phase" /\ nums[ret.args.x]._x = Zero)
        => (ret.err # "none" /\ ret.val = NoneVal)

\* the call r is one of x+0, 0+x, x-0, x*1, 1*x, x/1 and x**1
IdentityCall(r) ==
    \/ r.op \in {"add_number", "sub_number"} /\ r.args.rhs = 0
    \/ r.op = "radd_number" /\ r.args.lhs = 0
    \/ r.op \in {"mul_number", "div", "pow_number"} /\ r.args.rhs = 1
    \/ r.op = "rmul_number" /\ r.args.lhs = 1

\* the uncertain operand of the call r with a plain number
Operand(r) ==
    IF r.op \in {"radd_number", "rmul_number"} THEN r.args.rhs ELSE r.args.lhs

\* C15: x+0, 0+x, x-0, x*1, 1*x, x/1 and x**1 return the object x itself:
\* no object is created, no identifier is allocated and the registry is
\* as it was.
C15_IdentityReturnsOperand ==
    [][IdentityCall(ret') =>
            /\ ret'.err = "none"
            /\ ret'.val = Ref(Operand(ret'))
            /\ UNCHANGED <<nums, leaves, inodes, nextE, nextI>>]_vars

\* x ** 1 has returned an elementary x, after a sum was formed
C15_Witness ==
    /\ ret.op = "pow_number" /\ ret.args.rhs = 1
    /\ ret.val = Ref(ret.args.lhs)
    /\ nums[ret.args.lhs].is_elementary
    /\ Len(nums) > ArithLeaves

\* the three kinds of uncertain real, read from the node
IsElementaryUN(un) == un._node.kind = "Leaf" /\ un._node.uid # None
IsIntermediateUN(un) == un._node.kind = "Node"
IsTransientUN(un) == un._node = NoNode \/ un._node = LeafRef(None)

\* C17: every uncertain real is exactly one of elementary, intermediate
\* and transient, and its flags say which; it is never both elementary and
\* intermediate; an elementary number stays elementary and never becomes
\* intermediate; an intermediate number stays intermediate.
C17_ExactlyOneKind ==
    /\ [](\A k \in Ids :
            LET un == nums[k] IN
            /\ un.is_elementary = IsElementaryUN(un)
            /\ un.is_intermediate = IsIntermediateUN(un)
            /\ ~(un.is_elementary /\ un.is_intermediate)
            /\ IsTransientUN(un) = (~un.is_elementary /\ ~un.is_intermediate)
            /\ un.is_elementary => un._node.uid \in DOMAIN leaves
            /\ un.is_intermediate => un._node.uid \in DOMAIN inodes)
    /\ [][\A k \in Ids :
            /\ nums[k].is_elementary =>
                    /\ nums'[k].is_elementary /\ ~nums'[k].is_intermediate
                    /\ nums'[k]._node = nums[k]._node
            /\ nums[k].is_intermediate =>
                    /\ nums'[k].is_intermediate
                    /\ nums'[k]._node = nums[k]._node]_vars

\* intermediate(x) was called for an elementary x while a registered
\* intermediate number and a transient number exist
C17_Witness ==
    /\ ret.op = "intermediate" /\ ret.err = "none"
    /\ nums[ret.args.un].is_elementary
    /\ \E k \in Ids : nums[k].is_intermediate
    /\ \E k \in Ids : IsTransientUN(nums[k])

\* the arithmetic and mathematical operations, and the operations on the
\* registry
ArithOps ==
    {"add", "mul", "add_number", "radd_number", "sub_number", "mul_number",
     "rmul_number", "div", "pow_number", "neg", "pos", "magnitude", "phase"}
RegistryOps ==
    {"elementary", "intermediate", "set_correlation", "real_ensemble",
     "append_real_ensemble"}

\* every uncertain number that exists is as it was, and so is the registry
OperandsAndRegistryUnchanged ==
    /\ \A k \in Ids : k \in DOMAIN nums' /\ nums'[k] = nums[k]
    /\ UNCHANGED <<leaves, ens, inodes, nextE, nextI>>

\* C18: an arithmetic or mathematical operation, whether it returns or
\* raises, leaves every existing uncertain number (value, vectors, node,
\* flags) and the registry (counters, correlation maps, ensembles, nodes)
\* as they were; a step that changes any of them is a declaration, a
\* registration, set_correlation or an ensemble operation.
C18_ArithmeticIsPure ==
    [][/\ ret'.op \in ArithOps => OperandsAndRegistryUnchanged
       /\ ~OperandsAndRegistryUnchanged => ret'.op \in RegistryOps]_vars

\* -x was formed as a new object for a non-zero x, with other uncertain
\* numbers in existence
C18_Witness ==
    /\ ret.op = "neg" /\ ret.err = "none"
    /\ ret.val.id = Len(nums) /\ ret.args.x < Len(nums) - 1
    /\ nums[ret.val.id]._x = RNeg(nums[ret.args.x]._x)
    /\ nums[ret.args.x]._x # Zero

(***************************************************************************)
(* UncertainComplex: a pair of UncertainReal objects.  The complex number  *)
(* (r, i) is written as the pair of the indices of its components in nums. *)
(***************************************************************************)
\* a reference to the uncertain complex number with components r and i
CRef(r, i) == [kind |-> "UncertainComplex", real |-> r, imag |-> i]

\* UncertainComplex.__init__: the three assertions on the components
UncertainComplexOK(r, i) ==
    /\ \/ i.is_elementary = r.is_elementary
       \/ (i.is_elementary /\ is_uncertain_real_constant(r))
       \/ (r.is_elementary /\ is_uncertain_real_constant(i))
    /\ i.is_intermediate = r.is_intermediate
    /\ i._context = r._context

\* the Leaf of one component of an elementary uncertain complex number:
\* the pair id is recorded and, unless r is None (<< >>), the correlation
\* with the other component
complex_leaf(uid, other, complex_id, u, df, independent, r) ==
    [new_leaf(uid, u, df, independent) EXCEPT
        !.complex = complex_id,
        !.correlation = IF r = << >> THEN @ ELSE SetEntry(@, other, r[1])]

\* a call returning the new uncertain complex number (r, i), or failing in
\* its constructor
NewComplex(op, args, r, i) ==
    IF UncertainComplexOK(r, i)
    THEN /\ nums' = nums \o <<r, i>>
         /\ ret' = Call(op, args, "none", CRef(Len(nums) + 1, Len(nums) + 2))
         /\ UNCHANGED <<leaves, ens, inodes, nextE, nextI, arrs>>
    ELSE Raises(op, args, "AssertionError")

\* z1 + z2 for two uncertain complex numbers
CAdd(z1, z2) ==
    NewComplex("cadd", [lhs |-> z1, rhs |-> z2],
               add(nums[z1], nums[z2]), add(nums[z1 + 1], nums[z2 + 1]))

\* z + c for a plain complex c = cr + j ci
CAddNumber(z, cr, ci) ==
    IF cr = 0 /\ ci = 0
    THEN /\ ret' = Call("cadd_number", [lhs |-> z, rhs |-> <<cr, ci>>], "none",
                        CRef(z, z + 1))
         /\ UNCHANGED <<leaves, ens, inodes, nextE, nextI, nums, arrs>>
    ELSE NewComplex("cadd_number", [lhs |-> z, rhs |-> <<cr, ci>>],
                    add(nums[z], constant(R(cr))), add(nums[z + 1], constant(R(ci))))

\* c + z for a plain complex c: the two sums are formed and dropped, and the
\* method ends without a return statement
CRAddNumber(cr, ci, z) ==
    IF cr = 0 /\ ci = 0
    THEN /\ ret' = Call("cradd_number", [lhs |-> <<cr, ci>>, rhs |-> z], "none",
                        CRef(z, z + 1))
         /\ UNCHANGED <<leaves, ens, inodes, nextE, nextI, nums, arrs>>
    ELSE /\ ret' = Call("cradd_number", [lhs |-> <<cr, ci>>, rhs |-> z], "none",
                        NoneVal)
         /\ UNCHANGED <<leaves, ens, inodes, nextE, nextI, nums, arrs>>

(***************************************************************************)
(* Uncertain complex numbers: products, ensembles, Willink-Hall            *)
(***************************************************************************)
\* vector.extend_vector(a,b): a with the keys of b added at zero
extend_vector(a, b) == [k \in (DOMAIN a) \cup (DOMAIN b) |-> Get(a, k)]

\* vector.merge_weighted_vectors_twice(v1,(a1,a2),v2,(b1,b2)): the pair
\* a1*v1 + b1*v2, a2*v1 + b2*v2
merge_weighted_vectors_twice(v1, a, v2, b) ==
    << merge_weighted_vectors(v1, a[1], v2, b[1]),
       merge_weighted_vectors(v1, a[2], v2, b[2]) >>

\* z_to_seq(z) for z = re + j im
z_to_seq(re, im) == <<re, RNeg(im), im, re>>

\* UncertainComplex.bivariate_uc_n: the two components of the result
bivariate_uc_n(lhs_r, lhs_i, z_re, z_im, dz_dl, context) ==
    << UncertainReal(context, z_re,
            merge_weighted_vectors_twice(lhs_r._u_components, <<dz_dl[1], dz_dl[3]>>,
                                         lhs_i._u_components, <<dz_dl[2], dz_dl[4]>>)[1],
            merge_weighted_vectors_twice(lhs_r._d_components, <<dz_dl[1], dz_dl[3]>>,
                                         lhs_i._d_components, <<dz_dl[2], dz_dl[4]>>)[1],
            merge_weighted_vectors_twice(lhs_r._i_components, <<dz_dl[1], dz_dl[3]>>,
                                         lhs_i._i_components, <<dz_dl[2], dz_dl[4]>>)[1],
            NoNode),
       UncertainReal(context, z_im,
            merge_weighted_vectors_twice(lhs_r._u_components, <<dz_dl[1], dz_dl[3]>>,
                                         lhs_i._u_components, <<dz_dl[2], dz_dl[4]>>)[2],
            merge_weighted_vectors_twice(lhs_r._d_components, <<dz_dl[1], dz_dl[3]>>,
                                         lhs_i._d_components, <<dz_dl[2], dz_dl[4]>>)[2],
            merge_weighted_vectors_twice(lhs_r._i_components, <<dz_dl[1], dz_dl[3]>>,
                                         lhs_i._i_components, <<dz_dl[2], dz_dl[4]>>)[2],
            NoNode) >>

\* the components of z * c for a plain complex c = cr + j ci
cmul_number(zr, zi, cr, ci) ==
    bivariate_uc_n(zr, zi,
        RAdd(RMul(zr._x, R(cr)), RNeg(RMul(zi._x, R(ci)))),
        RAdd(RMul(zr._x, R(ci)), RMul(zi._x, R(cr))),
        z_to_seq(R(cr), R(ci)), zr._context)

\* z * c
CMulNumber(z, cr, ci) ==
    IF cr = 1 /\ ci = 0
    THEN /\ ret' = Call("cmul_number", [lhs |-> z, rhs |-> <<cr, ci>>], "none",
                        CRef(z, z + 1))
         /\ UNCHANGED <<leaves, ens, inodes, nextE, nextI, nums, arrs>>
    ELSE NewComplex("cmul_number", [lhs |-> z, rhs |-> <<cr, ci>>],
                    cmul_number(nums[z], nums[z + 1], cr, ci)[1],
                    cmul_number(nums[z], nums[z + 1], cr, ci)[2])

\* std_variance_covariance_complex from re.v and im.v
VarianceCovariance(re, im, v_r, v_i) ==
    [ err |-> IF v_r.err # "none" THEN v_r.err ELSE v_i.err,
      rr |-> v_r.val,
      ri |-> std_covariance_real(re, im),
      ii |-> v_i.val,
      cre |-> v_r.cache,
      cim |-> IF v_r.err # "none" THEN im._u ELSE v_i.cache ]

\* std_variance_covariance_complex(x): [err, rr, ri, ii, cre, cim], the
\* matrix (rr, ri, ri, ii) and the values left in re._u and im._u
std_variance_covariance_complex(re, im) ==
    VarianceCovariance(re, im, prop_v(re), prop_v(im))

\* _covariance_submatrix, one sum: u[x]**2 and twice the terms of the later
\* keys
CovSame(u, keys) ==
    RSum([i \in 1..Len(keys) |->
        RAdd(RMul(u[keys[i]], u[keys[i]]),
             RSum([j \in 1..(Len(keys) - i) |->
                RMul(R(2), RMul(u[keys[i]],
                    RMul(u[keys[i + j]], Corr(keys[i], keys[i + j]))))]))])

\* _covariance_submatrix, the cross sum: every key y other than x
CovCross(u_re, u_im, keys) ==
    RSum([i \in 1..Len(keys) |->
        RAdd(RMul(u_re[keys[i]], u_im[keys[i]]),
             RSum([j \in 1..Len(keys) |->
                IF j = i THEN Zero
                ELSE RMul(u_re[keys[i]],
                        RMul(u_im[keys[j]], Corr(keys[i], keys[j])))]))])

\* _covariance_submatrix(u_re,u_im)
covariance_submatrix(u_re, u_im) ==
    [ rr |-> CovSame(u_re, Keys(u_re)),
      ri |-> CovCross(u_re, u_im, Keys(u_re)),
      ii |-> CovSame(u_im, Keys(u_re)) ]

\* _EnsembleComponents(nu)
EnsembleComponents(nu) == [u_re |-> Vector, u_im |-> Vector, nu |-> nu]

\* the three running sums with v_11, v_12, v_22 of one term added
WHAdd(acc, v, nu) ==
    [acc EXCEPT
        !.sum_sq_u11 = RAdd(@, RDiv(RMul(v.rr, v.rr), R(nu))),
        !.sum_sq_u22 = RAdd(@, RDiv(RMul(v.ii, v.ii), R(nu))),
        !.sum_sq_diag = RAdd(@, RDiv(RAdd(RMul(v.rr, v.ii), RMul(v.ri, v.ri)), R(nu)))]

\* _EnsembleComponents.accumulate
accumulate(acc, c) == WHAdd(acc, covariance_submatrix(c.u_re, c.u_im), c.nu)

\* willink_hall: the independent components of finite degrees of freedom
RECURSIVE WHIndep(_, _, _, _, _)
WHIndep(acc, ids_u, re_u, im_u, i) ==
    IF i > Len(ids_u) THEN acc
    ELSE IF is_infinity(leaves[ids_u[i]].df) THEN WHIndep(acc, ids_u, re_u, im_u, i + 1)
    ELSE WHIndep(
            WHAdd(acc,
                  [rr |-> RMul(re_u[ids_u[i]], re_u[ids_u[i]]),
                   ri |-> RMul(re_u[ids_u[i]], im_u[ids_u[i]]),
                   ii |-> RMul(im_u[ids_u[i]], im_u[ids_u[i]])],
                  leaves[ids_u[i]].df),
            ids_u, re_u, im_u, i + 1)

\* willink_hall: a component of influence number i is correlated with a later
\* influence that is not in its ensemble, one of the two of finite degrees
\* of freedom
WHIllegal(ids_d, i, id_im, next_i) ==
    \E j \in next_i..Len(ids_d) :
        /\ ~(is_infinity(leaves[ids_d[i]].df) /\ is_infinity(leaves[ids_d[j]].df))
        /\ UidElem(ids_d[j]) \notin EnsembleOf(ids_d[i])
        /\ \/ ids_d[j] \in DOMAIN leaves[ids_d[i]].correlation
           \/ ids_d[j] \in DOMAIN leaves[id_im].correlation

\* ensemble_reg with a new _EnsembleComponents for the ensemble of key id_re,
\* if it has one that is not yet in the map
WHRegister(reg, id_re) ==
    IF EnsembleOf(id_re) # {} /\ EnsembleOf(id_re) \notin DOMAIN reg
    THEN [e \in DOMAIN reg \cup {EnsembleOf(id_re)} |->
            IF e = EnsembleOf(id_re) THEN EnsembleComponents(leaves[id_re].df)
            ELSE reg[e]]
    ELSE reg

\* components_i with the coefficients of the keys ks appended, if the degrees
\* of freedom are finite
WHAppend(c, ks, re_d, im_d, infinite) ==
    IF infinite THEN c
    ELSE [c EXCEPT
            !.u_re = [k \in DOMAIN c.u_re \cup ks |->
                        IF k \in ks THEN re_d[k] ELSE c.u_re[k]],
            !.u_im = [k \in DOMAIN c.u_im \cup ks |->
                        IF k \in ks THEN im_d[k] ELSE c.u_im[k]]]

\* the influence ids_d[i] with the keys ks handled: its components go to the
\* object of its ensemble, or are accumulated at once
WHPut(acc, id_re, ks, re_d, im_d) ==
    IF EnsembleOf(id_re) # {}
    THEN [acc EXCEPT !.reg = [@ EXCEPT ![EnsembleOf(id_re)] =
            WHAppend(@, ks, re_d, im_d, is_infinity(leaves[id_re].df))]]
    ELSE accumulate(acc, WHAppend(EnsembleComponents(leaves[id_re].df), ks, re_d, im_d,
                                  is_infinity(leaves[id_re].df)))

\* willink_hall: the loop over the dependent influences
RECURSIVE WHDep(_, _, _, _, _)
WHDep(acc, ids_d, re_d, im_d, i) ==
    IF acc.status # "ok" \/ i > Len(ids_d) THEN acc
    ELSE IF leaves[ids_d[i]].complex # <<None, None>>
    THEN IF i + 1 > Len(ids_d) THEN [acc EXCEPT !.status = "IndexError"]
         ELSE IF WHIllegal(ids_d, i, ids_d[i + 1], i + 2)
         THEN [acc EXCEPT !.status = "nan"]
         ELSE WHDep(WHPut([acc EXCEPT !.reg = WHRegister(@, ids_d[i]),
                                      !.groups = @ \cup {{ids_d[i], ids_d[i + 1]}}],
                          ids_d[i], {ids_d[i], ids_d[i + 1]}, re_d, im_d),
                    ids_d, re_d, im_d, i + 2)
    ELSE IF ~(is_infinity(leaves[ids_d[i]].df) \/ i + 1 > Len(ids_d))
    THEN [acc EXCEPT !.status = "AssertionError"]
    ELSE WHDep(WHPut([acc EXCEPT !.reg = WHRegister(@, ids_d[i]),
                                 !.groups = @ \cup {{ids_d[i]}}],
                     ids_d[i], {ids_d[i]}, re_d, im_d),
               ids_d, re_d, im_d, i + 1)

\* for ec_i in ensemble_reg.itervalues(): ec_i.accumulate()
RECURSIVE WHEnsembles(_, _)
WHEnsembles(acc, todo) ==
    IF todo = {} THEN acc
    ELSE WHEnsembles(accumulate(acc, acc.reg[CHOOSE e \in todo : TRUE]),
                     todo \ {CHOOSE e \in todo : TRUE})

\* willink_hall: the degrees of freedom from the matrix var and the sums
WHResult(var, acc) ==
    IF acc.status = "nan" THEN [err |-> "none", df |-> NaN]
    ELSE IF var.rr = Zero /\ var.ri = Zero /\ var.ii = Zero
    THEN [err |-> "none", df |-> NaN]
    ELSE IF RAdd(var.rr, var.ii) = Zero THEN [err |-> "ZeroDivisionError", df |-> NaN]
    ELSE IF RAdd(RMul(R(2), acc.sum_sq_u11),
                 RAdd(acc.sum_sq_diag, RMul(R(2), acc.sum_sq_u22))) = Zero
    THEN [err |-> "none", df |-> InfDof]
    ELSE [err |-> "none",
          df |-> [kind |-> "num",
                  q |-> RDiv(RAdd(RMul(R(2), RMul(var.rr, var.rr)),
                                  RAdd(RAdd(RMul(var.rr, var.ii), RMul(var.ri, var.ri)),
                                       RMul(R(2), RMul(var.ii, var.ii)))),
                             RAdd(RMul(R(2), acc.sum_sq_u11),
                                  RAdd(acc.sum_sq_diag, RMul(R(2), acc.sum_sq_u22))))]]

\* the accumulators before the loops; groups collects the sets of keys the
\* loop over the dependent influences handles in one pass
WHStart ==
    [status |-> "ok", sum_sq_u11 |-> Zero, sum_sq_u22 |-> Zero, sum_sq_diag |-> Zero,
     reg |-> << >>, groups |-> {}]

\* for ec_i in ensemble_reg.itervalues(): ec_i.accumulate(), if the loop
\* over the dependent influences came to its end
WHAfterDep(acc) == IF acc.status # "ok" THEN acc ELSE WHEnsembles(acc, DOMAIN acc.reg)

\* the sums after the loops over the independent and the dependent
\* influences and over the ensembles
WHSums(re_u, im_u, re_d, im_d) ==
    WHAfterDep(WHDep(WHIndep(WHStart, Keys(re_u), re_u, im_u, 1),
                     Keys(re_d), re_d, im_d, 1))

\* willink_hall returning the matrix var and the degrees of freedom df
WHReturn(var, df) ==
    [err |-> var.err, df |-> IF var.err # "none" THEN NaN ELSE df,
     cre |-> var.cre, cim |-> var.cim]

\* willink_hall after its loops: an error raised in them, or the result
\* from the matrix var
WHFinish(re, im, acc, var) ==
    IF acc.status \in {"IndexError", "AssertionError"}
    THEN [err |-> acc.status, df |-> NaN, cre |-> re._u, cim |-> im._u]
    ELSE IF var.err # "none" THEN WHReturn(var, NaN)
    ELSE WHReturn([var EXCEPT !.err = WHResult(var, acc).err], WHResult(var, acc).df)

\* willink_hall(x) for x = (re, im): [err, df, cre, cim], cre and cim the
\* values left in re._u and im._u
willink_hall(re, im) ==
    IF is_uncertain_real_constant(re) /\ is_uncertain_real_constant(im)
    THEN [err |-> "none", df |-> InfDof, cre |-> re._u, cim |-> im._u]
    ELSE IF re.is_elementary
    THEN IF ~im.is_elementary
         THEN [err |-> "AssertionError", df |-> NaN, cre |-> re._u, cim |-> im._u]
         ELSE WHReturn(std_variance_covariance_complex(re, im),
                       DofOf(leaves[re._node.uid].df))
    ELSE IF \A k \in DOMAIN re._u_components \cup DOMAIN im._u_components
                    \cup DOMAIN re._d_components \cup DOMAIN im._d_components :
                is_infinity(leaves[k].df)
    THEN WHReturn(std_variance_covariance_complex(re, im), InfDof)
    ELSE WHFinish(re, im,
            WHSums(extend_vector(re._u_components, im._u_components),
                   extend_vector(im._u_components, re._u_components),
                   extend_vector(re._d_components, im._d_components),
                   extend_vector(im._d_components, re._d_components)),
            std_variance_covariance_complex(re, im))

\* z.df read with the result wh of willink_hall(z)
CReadDfWith(z, wh) ==
    /\ nums' = [nums EXCEPT ![z]._u = wh.cre, ![z + 1]._u = wh.cim]
    /\ ret' = Call("cdf", [x |-> z], wh.err, IF wh.err # "none" THEN NoneVal ELSE wh.df)
    /\ UNCHANGED <<leaves, ens, inodes, nextE, nextI, arrs>>

\* reading z.df of the uncertain complex number z
CReadDf(z) == CReadDfWith(z, willink_hall(nums[z], nums[z + 1]))

\* complex_ensemble(seq,df) for elementary members; seq is taken as the set
\* of its members.  The members' .df is read first, which leaves the
\* uncertainty of each component in its _u.
ComplexEnsemble(seq, df) ==
    IF seq = {}
    THEN /\ ret' = Call("complex_ensemble", [seq |-> seq, df |-> df], "none", NoneVal)
         /\ UNCHANGED <<leaves, ens, inodes, nextE, nextI, nums, arrs>>
    ELSE IF \E s \in seq : leaves[UidOf(s)].df # df
    THEN /\ ret' = Call("complex_ensemble", [seq |-> seq, df |-> df],
                        "AssertionError", NoneVal)
         /\ nums' = [k \in DOMAIN nums |->
                IF \E s \in seq : k \in {s, s + 1}
                        /\ \A t \in seq : t < s => leaves[UidOf(t)].df = df
                THEN [nums[k] EXCEPT !._u = prop_v(nums[k]).cache]
                ELSE nums[k]]
         /\ UNCHANGED <<leaves, ens, inodes, nextE, nextI, arrs>>
    ELSE /\ nums' = [k \in DOMAIN nums |->
                IF \E s \in seq : k \in {s, s + 1}
                THEN [nums[k] EXCEPT !._u = prop_v(nums[k]).cache]
                ELSE nums[k]]
         /\ IF \E s \in seq : leaves[UidOf(s)].independent \/ leaves[UidOf(s + 1)].independent
            THEN /\ ret' = Call("complex_ensemble", [seq |-> seq, df |-> df],
                                "RuntimeError", NoneVal)
                 /\ UNCHANGED <<leaves, ens, inodes, nextE, nextI, arrs>>
            ELSE /\ ens' = Append(ens, {UidElem(UidOf(k)) :
                                    k \in {s : s \in seq} \cup {s + 1 : s \in seq}})
                 /\ leaves' = [k \in DOMAIN leaves |->
                        IF \E s \in seq : k \in {UidOf(s), UidOf(s + 1)}
                        THEN [leaves[k] EXCEPT !.ensemble = Len(ens) + 1]
                        ELSE leaves[k]]
                 /\ ret' = Call("complex_ensemble", [seq |-> seq, df |-> df],
                                "none", NoneVal)
                 /\ UNCHANGED <<inodes, nextE, nextI, arrs>>

(***************************************************************************)
(* SpecComplex: CxLeaves declared elementary uncertain complex numbers,    *)
(* their sums and products, correlations, ensembles and degrees of freedom *)
(***************************************************************************)
\* the declarations <<u_r, u_i, r, df, independent>> of an elementary
\* uncertain complex number; every value is 1 + 2j
CLeafIn ==
    {<<1, 2, << >>, 2, FALSE>>, <<1, 1, <<Rat(1, 2)>>, 2, FALSE>>,
     <<2, 1, << >>, inf, FALSE>>, <<1, 2, << >>, 2, TRUE>>}
CNumIn == {<<0, 0>>, <<1, 0>>, <<1, 2>>}

\* the uid of the real component of the k-th declared complex number
ReUid(k) == 2 * k - 1

InitComplex ==
    \E d \in [1..CxLeaves -> CLeafIn] :
        /\ leaves = [u \in 1..(2 * CxLeaves) |->
                LET k == (u + 1) \div 2
                    id == <<ReUid(k), ReUid(k) + 1>>
                IN  IF u = ReUid(k)
                    THEN complex_leaf(u, u + 1, id, R(d[k][1]), d[k][4], d[k][5], d[k][3])
                    ELSE complex_leaf(u, u - 1, id, R(d[k][2]), d[k][4], d[k][5], d[k][3])]
        /\ nums = [u \in 1..(2 * CxLeaves) |->
                LET k == (u + 1) \div 2
                IN  IF u = ReUid(k) THEN elementary(u, 1, d[k][1], d[k][5])
                    ELSE elementary(u, 2, d[k][2], d[k][5])]
        /\ nextE = 2 * CxLeaves
        /\ ens = << >>
        /\ inodes = << >>
        /\ nextI = 0
        /\ arrs = << >>
        /\ ret = Call("init", [x |-> None], "none", NoneVal)

\* the uncertain complex numbers: (nums[k], nums[k+1]) for odd k
CIds == {k \in Ids : k % 2 = 1}

\* the elementary uncertain complex numbers
CElemIds == {k \in CIds : nums[k].is_elementary /\ nums[k + 1].is_elementary}
CorrIn == {Rat(1, 2)}
CDfIn == {2}

NextComplex ==
    \/ \E z1, z2 \in CIds : Len(nums) < CxNums /\ z1 <= z2 /\ CAdd(z1, z2)
    \/ \E z \in CIds, c \in CNumIn : Len(nums) < CxNums /\ CAddNumber(z, c[1], c[2])
    \/ \E z \in CIds, c \in CNumIn : CRAddNumber(c[1], c[2], z)
    \/ \E z \in CIds, c \in CNumIn : Len(nums) < CxNums /\ CMulNumber(z, c[1], c[2])
    \/ \E z1, z2 \in CElemIds, b \in {0, 1}, r \in CorrIn :
            z1 < z2 /\ SetCorrelation(z1, z2 + b, r)
    \/ \E seq \in SUBSET CElemIds, df \in CDfIn :
            Len(ens) < MaxEns /\ ComplexEnsemble(seq, df)
    \/ \E z \in CIds : CReadDf(z)

SpecComplex == InitComplex /\ [][NextComplex]_vars

(***************************************************************************)
(* Claims about uncertain complex numbers (SpecComplex)                    *)
(***************************************************************************)
\* C14: for a non-zero plain complex c, c + z returns an uncertain complex
\* number of value c + z.x with the vectors z + c has.
C14_ComplexRAdd ==
    (ret.op = "cradd_number" /\ ret.args.lhs # <<0, 0>>) =>
        LET z == ret.args.rhs
            c == ret.args.lhs
            r == add(nums[z], constant(R(c[1])))
            i == add(nums[z + 1], constant(R(c[2])))
        IN  /\ ret.err = "none"
            /\ ret.val.kind = "UncertainComplex"
            /\ nums[ret.val.real]._x = RAdd(R(c[1]), nums[z]._x)
            /\ nums[ret.val.imag]._x = RAdd(R(c[2]), nums[z + 1]._x)
            /\ SameVectors(nums[ret.val.real], r)
            /\ SameVectors(nums[ret.val.imag], i)

\* the elementary influences of the uncertain complex number (re, im)
InfluencesOf(re, im) ==
    DOMAIN re._u_components \cup DOMAIN im._u_components
        \cup DOMAIN re._d_components \cup DOMAIN im._d_components

\* every influence of (re, im) is a dependent leaf of the declared ensemble
\* e, of the finite degrees of freedom nu
AllInOneEnsemble(re, im, e, nu) ==
    /\ nu # inf
    /\ InfluencesOf(re, im) # {}
    /\ \A k \in InfluencesOf(re, im) :
            /\ leaves[k].ensemble = e
            /\ UidElem(k) \in ens[e]
            /\ ~leaves[k].independent
            /\ leaves[k].df = nu

\* the variance-covariance matrix of (re, im) is not zero
NonZeroMatrix(re, im) ==
    \/ std_variance_covariance_complex(re, im).rr # Zero
    \/ std_variance_covariance_complex(re, im).ri # Zero
    \/ std_variance_covariance_complex(re, im).ii # Zero

\* C16: the degrees of freedom of a derived uncertain complex number whose
\* influences all belong to one declared ensemble of dependent elementary
\* complex numbers of nu degrees of freedom, and whose variance-covariance
\* matrix is not zero, are nu.
C16_EnsembleDof ==
    \A e \in DOMAIN ens, nu \in CDfIn :
        (/\ ret.op = "cdf"
         /\ ~nums[ret.args.x].is_elementary
         /\ AllInOneEnsemble(nums[ret.args.x], nums[ret.args.x + 1], e, nu)
         /\ NonZeroMatrix(nums[ret.args.x], nums[ret.args.x + 1]))
        => /\ ret.err = "none"
           /\ ret.val = DofOf(nu)

(***************************************************************************)
(* GTC.LU: LU decomposition of arrays.  An array object is an entry of     *)
(* arrs: [shape, val], val a sequence of rows (2D) or of elements (1D).    *)
(* Row and column numbers start at 1.                                      *)
(***************************************************************************)
\* a[i,j] less the sum of a[i,k]*a[k,j] for the first n values of k
RECURSIVE LUFold(_, _, _, _)
LUFold(a, i, j, n) ==
    IF n = 0 THEN a[i][j]
    ELSE RAdd(LUFold(a, i, j, n - 1), RNeg(RMul(a[i][n], a[n][j])))

\* ludcmp, column j: the rows i above the diagonal, in place
RECURSIVE LUUpper(_, _, _)
LUUpper(a, j, i) ==
    IF i >= j THEN a
    ELSE LUUpper([a EXCEPT ![i][j] = LUFold(a, i, j, i - 1)], j, i + 1)

\* ludcmp, column j: the rows i from the diagonal down, in place, and the
\* row imax of the largest scaled element
RECURSIVE LULower(_, _, _, _, _, _)
RECURSIVE LULowerPick(_, _, _, _, _, _)
LULower(a, vv, j, i, big, imax) ==
    IF i > Len(a) THEN [a |-> a, imax |-> imax]
    ELSE LULowerPick([a EXCEPT ![i][j] = LUFold(a, i, j, j - 1)], vv, j, i, big, imax)
LULowerPick(a, vv, j, i, big, imax) ==
    IF ~RLt(RMul(vv[i], RAbs(a[i][j])), big)
    THEN LULower(a, vv, j, i + 1, RMul(vv[i], RAbs(a[i][j])), i)
    ELSE LULower(a, vv, j, i + 1, big, imax)

\* ludcmp: rows j and imax exchanged
LUSwap(a, j, imax) ==
    IF j = imax THEN a ELSE [a EXCEPT ![j] = a[imax], ![imax] = a[j]]

\* ludcmp: the elements of column j below the diagonal divided by a[j,j]
LUScale(a, j) ==
    IF j = Len(a) THEN a
    ELSE [i \in 1..Len(a) |->
            IF i > j THEN [a[i] EXCEPT ![j] = RMul(@, RDiv(One, a[j][j]))] ELSE a[i]]

\* ludcmp, the loop over the columns: [err, a, indx, parity], a being the
\* contents of the array when the function returns or raises
RECURSIVE LUColumns(_, _, _, _, _)
RECURSIVE LUPivot(_, _, _, _, _)
RECURSIVE LUAfterSwap(_, _, _, _, _)
LUColumns(a, vv, indx, parity, j) ==
    IF j > Len(a)
    THEN [err |-> "none", a |-> a, indx |-> indx, parity |-> parity]
    ELSE LUPivot(LULower(LUUpper(a, j, 1), vv, j, j, Zero, j), vv, indx, parity, j)
LUPivot(low, vv, indx, parity, j) ==
    LUAfterSwap(LUSwap(low.a, j, low.imax),
                IF j # low.imax THEN [vv EXCEPT ![low.imax] = vv[j]] ELSE vv,
                [indx EXCEPT ![j] = low.imax],
                IF j # low.imax THEN -parity ELSE parity, j)
LUAfterSwap(a, vv, indx, parity, j) ==
    IF a[j][j] = Zero
    THEN [err |-> "RuntimeError", a |-> a, indx |-> indx, parity |-> parity]
    ELSE LUColumns(LUScale(a, j), vv, indx, parity, j + 1)

\* the largest |a[i,j]| of row i, from 0.0
RECURSIVE LUBig(_, _, _)
LUBig(a, i, n) ==
    IF n = 0 THEN Zero
    ELSE IF RLt(LUBig(a, i, n - 1), RAbs(a[i][n])) THEN RAbs(a[i][n])
    ELSE LUBig(a, i, n - 1)

\* ludcmp(a) for a square 2D array: a row of zeros raises before anything
\* is written
ludcmp(a) ==
    IF \E i \in 1..Len(a) : LUBig(a, i, Len(a)) = Zero
    THEN [err |-> "RuntimeError", a |-> a, indx |-> [i \in 1..Len(a) |-> 0],
          parity |-> 1]
    ELSE LUColumns(a, [i \in 1..Len(a) |-> RDiv(One, LUBig(a, i, Len(a)))],
                   [i \in 1..Len(a) |-> 0], 1, 1)

\* the sum of a[i,j]*b[j] for j in lo..hi
RECURSIVE LUDot(_, _, _, _, _)
LUDot(a, b, i, lo, hi) ==
    IF lo > hi THEN Zero
    ELSE RAdd(RMul(a[i][lo], b[lo]), LUDot(a, b, i, lo + 1, hi))

\* _lubksb, first loop: unscramble the permutation and substitute forward;
\* ii = 0 until the first non-zero element of b is met
RECURSIVE LUForward(_, _, _, _, _)
LUForward(a, idx, b, i, ii) ==
    IF i > Len(a) THEN b
    ELSE IF ii # 0
    THEN LUForward(a, idx,
            [[b EXCEPT ![idx[i]] = b[i]] EXCEPT ![i] =
                RAdd(b[idx[i]],
                     RNeg(LUDot(a, [b EXCEPT ![idx[i]] = b[i]], i, ii, i - 1)))],
            i + 1, ii)
    ELSE LUForward(a, idx, [[b EXCEPT ![idx[i]] = b[i]] EXCEPT ![i] = b[idx[i]]],
                   i + 1, IF b[idx[i]] # Zero THEN i ELSE 0)

\* _lubksb, second loop: substitute backward
RECURSIVE LUBackward(_, _, _)
LUBackward(a, b, i) ==
    IF i = 0 THEN b
    ELSE LUBackward(a,
            [b EXCEPT ![i] = RDiv(RAdd(b[i], RNeg(LUDot(a, b, i, i + 1, Len(a)))),
                                  a[i][i])],
            i - 1)

\* _lubksb(a_lu,idx,b): the contents of b when it returns
lubksb(a_lu, idx, b) == LUBackward(a_lu, LUForward(a_lu, idx, b, 1, 0), Len(a_lu))

\* solve(a,b) from the decomposition d of a copy of a
LUSolveWith(d, b) ==
    IF d.err # "none" THEN [err |-> d.err, val |-> << >>]
    ELSE [err |-> "none", val |-> lubksb(d.a, d.indx, b)]

\* invab(a,b) from the decomposition d of a copy of a: column j of the
\* result is the solution for column j of b
LUInvabWith(d, b) ==
    IF d.err # "none" THEN [err |-> d.err, val |-> << >>]
    ELSE [err |-> "none",
          val |-> [i \in 1..Len(d.a) |-> [j \in 1..Len(b[1]) |->
                    lubksb(d.a, d.indx, [k \in 1..Len(d.a) |-> b[k][j]])[i]]]]

\* array objects
Array1D(v) == [shape |-> <<Len(v)>>, val |-> v]
Array2D(m) == [shape |-> <<Len(m), Len(m[1])>>, val |-> m]
ArrRef(k) == [kind |-> "array", id |-> k]

\* a call returning the new array object arr
NewArray(op, args, arr) ==
    /\ arrs' = Append(arrs, arr)
    /\ ret' = Call(op, args, "none", ArrRef(Len(arrs) + 1))
    /\ UNCHANGED <<leaves, ens, inodes, nextE, nextI, nums>>

\* a call on arrays that raises
ArrayRaises(op, args, err) ==
    /\ ret' = Call(op, args, err, NoneVal)
    /\ UNCHANGED <<leaves, ens, inodes, nextE, nextI, nums, arrs>>

\* ludcmp(a): a is given the values of the decomposition, as far as it got
Ludcmp(h) ==
    IF Len(arrs[h].shape) # 2 \/ arrs[h].shape[1] # arrs[h].shape[2]
    THEN ArrayRaises("ludcmp", [a |-> h], "RuntimeError")
    ELSE /\ arrs' = [arrs EXCEPT ![h].val = ludcmp(arrs[h].val).a]
         /\ ret' = Call("ludcmp", [a |-> h], ludcmp(arrs[h].val).err,
                        IF ludcmp(arrs[h].val).err # "none" THEN NoneVal
                        ELSE [kind |-> "lu", a |-> h,
                              indx |-> ludcmp(arrs[h].val).indx,
                              parity |-> ludcmp(arrs[h].val).parity])
         /\ UNCHANGED <<leaves, ens, inodes, nextE, nextI, nums>>

\* a solve that hands a and b themselves to ludcmp and _lubksb (C20 tells
\* it from the original)
SolveNoCopy(ha, hb) ==
    /\ arrs' = [arrs EXCEPT
            ![ha].val = ludcmp(arrs[ha].val).a,
            ![hb].val = IF ludcmp(arrs[ha].val).err # "none" THEN @
                        ELSE LUSolveWith(ludcmp(arrs[ha].val), @).val]
    /\ ret' = Call("solve", [a |-> ha, b |-> hb], ludcmp(arrs[ha].val).err,
                   IF ludcmp(arrs[ha].val).err # "none" THEN NoneVal ELSE ArrRef(hb))
    /\ UNCHANGED <<leaves, ens, inodes, nextE, nextI, nums>>

\* solve(a,b) for a square 2D a and a 1D b: ludcmp and _lubksb work on
\* a.copy() and b.copy(); the copy of b is returned
Solve(ha, hb) ==
    IF LUSolveWith(ludcmp(arrs[ha].val), arrs[hb].val).err # "none"
    THEN ArrayRaises("solve", [a |-> ha, b |-> hb],
                     LUSolveWith(ludcmp(arrs[ha].val), arrs[hb].val).err)
    ELSE NewArray("solve", [a |-> ha, b |-> hb],
                  Array1D(LUSolveWith(ludcmp(arrs[ha].val), arrs[hb].val).val))

\* invab(a,b): b must be 2D; ludcmp works on a.copy(), _lubksb on a list
\* made from each column of b
Invab(ha, hb) ==
    IF Len(arrs[hb].shape) # 2
    THEN ArrayRaises("invab", [a |-> ha, b |-> hb], "RuntimeError")
    ELSE IF LUInvabWith(ludcmp(arrs[ha].val), arrs[hb].val).err # "none"
    THEN ArrayRaises("invab", [a |-> ha, b |-> hb],
                     LUInvabWith(ludcmp(arrs[ha].val), arrs[hb].val).err)
    ELSE NewArray("invab", [a |-> ha, b |-> hb],
                  Array2D(LUInvabWith(ludcmp(arrs[ha].val), arrs[hb].val).val))

(***************************************************************************)
(* SpecLU: a MatN x MatN array a, a 1D array b and a MatN x 2 array b      *)
(***************************************************************************)
MatIn == {0, 1, 2}
VecIn == {0, 1}

InitLU ==
    \E m \in [1..MatN -> [1..MatN -> MatIn]], v \in [1..MatN -> VecIn] :
        /\ arrs = << Array2D([i \in 1..MatN |-> [j \in 1..MatN |-> R(m[i][j])]]),
                     Array1D([i \in 1..MatN |-> R(v[i])]),
                     Array2D([i \in 1..MatN |-> <<R(v[i]), One>>]) >>
        /\ leaves = << >>
        /\ ens = << >>
        /\ inodes = << >>
        /\ nextE = 0
        /\ nextI = 0
        /\ nums = << >>
        /\ ret = Call("init", [x |-> None], "none", NoneVal)

ArrIds == 1..Len(arrs)
SquareIds == {h \in ArrIds : Len(arrs[h].shape) = 2 /\ arrs[h].shape[1] = arrs[h].shape[2]}
VectorIds == {h \in ArrIds : Len(arrs[h].shape) = 1}

\* the arrays whose elements are fractions of numerator and denominator up
\* to LUMaxEntry: repeated decomposition of one array leaves this set
SmallIds ==
    {h \in ArrIds :
        IF Len(arrs[h].shape) = 1
        THEN \A i \in 1..Len(arrs[h].val) :
                RAbs(arrs[h].val[i]).n <= LUMaxEntry /\ arrs[h].val[i].d <= LUMaxEntry
        ELSE \A i \in 1..Len(arrs[h].val) : \A j \in 1..Len(arrs[h].val[i]) :
                /\ RAbs(arrs[h].val[i][j]).n <= LUMaxEntry
                /\ arrs[h].val[i][j].d <= LUMaxEntry}

NextLU ==
    \/ \E h \in SmallIds : Ludcmp(h)
    \/ \E ha \in SquareIds \cap SmallIds, hb \in VectorIds :
            Len(arrs) < LUArrs /\ Solve(ha, hb)
    \/ \E ha \in SquareIds \cap SmallIds, hb \in ArrIds :
            Len(arrs) < LUArrs /\ Invab(ha, hb)

SpecLU == InitLU /\ [][NextLU]_vars

(***************************************************************************)
(* Claims about GTC.LU (SpecLU)                                            *)
(***************************************************************************)
\* the product of the 2D array a and the 1D array x
MatVec(a, x) == [i \in 1..Len(a) |-> LUDot(a, x, i, 1, Len(a))]

\* C20: solve(a,b) and invab(a,b) leave the arrays a and b as they were,
\* whether they return a solution or raise.
C20_SolveLeavesArguments ==
    [][ret'.op \in {"solve", "invab"} =>
            /\ arrs'[ret'.args.a] = arrs[ret'.args.a]
            /\ arrs'[ret'.args.b] = arrs[ret'.args.b]]_vars

\* solve(a,b) returned the solution of a.x = b for an a whose rows ludcmp
\* exchanges and a non-zero b
C20_Witness ==
    /\ ret.op = "solve" /\ ret.err = "none"
    /\ ludcmp(arrs[ret.args.a].val).parity = -1
    /\ arrs[ret.args.b].val # [i \in 1..MatN |-> Zero]
    /\ MatVec(arrs[ret.args.a].val, arrs[ret.val.id].val) = arrs[ret.args.b].val
    /\ arrs[ret.val.id].val # arrs[ret.args.b].val

(***************************************************************************)
(* Claims about the variance welch_satterthwaite returns (SpecWS)          *)
(***************************************************************************)
\* C21: for every derived, non-constant uncertain real on which
\* welch_satterthwaite returns, the variance it returns is
\* std_variance_real(x) for the current correlation maps, on every path.
C21_VarianceAgrees ==
    \A k \in Ids :
        Derived(nums[k]) =>
            LET ws == welch_satterthwaite(nums[k])
            IN  ws.err = "none" => ws.var = std_variance_real(nums[k])

(***************************************************************************)
(* SpecDof: sums of DofLeaves declared leaves, some of uncertainty zero,   *)
(* with finite and infinite degrees of freedom, their correlations and     *)
(* ensembles, and reads of v and df of the sums.       It starts from the    *)
(* registry the declarations leave behind.                                 *)
(***************************************************************************)
\* the declarations <<u, df, independent>> a leaf is drawn from
LeafDof == {<<1, 2, FALSE>>, <<0, 2, FALSE>>, <<1, inf, FALSE>>, <<1, 2, TRUE>>}
RDof == {R(-1)}
DfDof == {2}

\* the last leaf is dependent, of uncertainty 1 and infinite dof
InitDof ==
    \E e \in [1..(DofLeaves - 1) -> LeafDof] :
      LET d == Append(e, <<1, inf, FALSE>>) IN
        /\ leaves = [k \in 1..DofLeaves |-> new_leaf(k, R(d[k][1]), d[k][2], d[k][3])]
        /\ nums = [k \in 1..DofLeaves |-> elementary(k, 1, d[k][1], d[k][3])]
        /\ nextE = DofLeaves
        /\ ens = << >>
        /\ inodes = << >>
        /\ nextI = 0
        /\ arrs = << >>
        /\ ret = Call("init", [x |-> None], "none", NoneVal)

NextDof ==
    \/ \E a, b \in Ids : Len(nums) < DofNums /\ a < b /\ Add(a, b)
    \/ \E a, b \in DepIds, r \in RDof : a < b /\ SetCorrelation(a, b, r)
    \/ \E seq \in SUBSET DepIds, df \in DfDof : Len(ens) < MaxEns /\ RealEnsemble(seq, df)
    \/ \E k \in Ids \ ElemIds : ReadV(k)
    \/ \E k \in Ids \ ElemIds : ReadDf(k)

SpecDof == InitDof /\ [][NextDof]_vars

(***************************************************************************)
(* Claims about the degrees of freedom welch_satterthwaite returns         *)
(* (SpecDof)                                                               *)
(***************************************************************************)
\* the influences of x that make one term with influence k: k alone when it
\* is independent, the members of its ensemble, the other half of its
\* complex pair
TermOf(x, k) ==
    LET d == DOMAIN x._d_components
    IN  IF k \in DOMAIN x._u_components THEN {k}
        ELSE IF leaves[k].ensemble # None THEN {j \in d : SameEnsemble(k, j)}
        ELSE {j \in d : j = k \/ (ComplexPair(k, j) /\ leaves[j].ensemble = None)}

\* the coefficient of influence k in x
Coefficient(x, k) ==
    IF k \in DOMAIN x._u_components THEN x._u_components[k] ELSE x._d_components[k]

\* the variance of a term: the squares and twice the covariances inside it
TermVariance(x, g) ==
    LET s == SortedSeq(g)
        row(i) == RAdd(RMul(Coefficient(x, s[i]), Coefficient(x, s[i])),
                       RSum([j \in 1..(Len(s) - i) |->
                            RMul(R(2), RMul(Coefficient(x, s[i]),
                                RMul(Corr(s[i], s[i + j]), Coefficient(x, s[i + j]))))]))
    IN  RSum([i \in 1..Len(s) |-> row(i)])

\* the dof of a term: that of its first influence
TermDof(g) == leaves[SortedSeq(g)[1]].df

\* sum of term_variance^2 / term_dof over the terms of finite dof
FiniteTermSum(x) ==
    LET keys == DOMAIN x._u_components \cup DOMAIN x._d_components
        first == SortedSeq({SortedSeq(TermOf(x, k))[1] : k \in
                                {k \in keys : TermDof(TermOf(x, k)) # inf}})
        tv(i) == TermVariance(x, TermOf(x, first[i]))
    IN  RSum([i \in 1..Len(first) |->
                RDiv(RMul(tv(i), tv(i)), R(TermDof(TermOf(x, first[i]))))])

\* the dof the four cases give for a derived number x
ExpectedDof(x) ==
    LET keys == DOMAIN x._u_components \cup DOMAIN x._d_components
        var == std_variance_real(x)
    IN  IF \A k \in keys : leaves[k].df = inf THEN InfDof
        ELSE IF var = Zero THEN NaN
        ELSE IF FiniteTermSum(x) = Zero THEN InfDof
        ELSE [kind |-> "num", q |-> RDiv(RMul(var, var), FiniteTermSum(x))]

CAddReal(z, x) ==
    NewComplex("cadd_real", [lhs |-> z, rhs |-> x],
               add(nums[z], nums[x]), pos(nums[z + 1]))

\* the degrees of freedom of z and of x1, x2, and whether z is declared first
MixIn == [c : {2, inf}, x : {2, inf}, first : BOOLEAN]

InitMix ==
    \E d \in MixIn :
      LET zr == IF d.first THEN 1 ELSE 3 IN
        /\ leaves = [u \in 1..4 |->
                IF u = zr THEN complex_leaf(u, u + 1, <<zr, zr + 1>>, One, d.c, FALSE, << >>)
                ELSE IF u = zr + 1
                THEN complex_leaf(u, u - 1, <<zr, zr + 1>>, One, d.c, FALSE, << >>)
                ELSE new_leaf(u, One, d.x, FALSE)]
        /\ nums = [u \in 1..4 |-> elementary(u, 1, 1, FALSE)]
        /\ nextE = 4
        /\ ens = << >>
        /\ inodes = << >>
        /\ nextI = 0
        /\ arrs = << >>
        /\ ret = Call("init", [x |-> None], "none", NoneVal)

NextMix ==
    \/ \E z1, z2 \in CIds : Len(nums) < MixNums /\ z1 <= z2 /\ CAdd(z1, z2)
    \/ \E z \in CIds, x \in Ids : Len(nums) < MixNums /\ CAddReal(z, x)
    \* a component of the first declaration with one of the second
    \/ \E a \in {1, 2}, b \in {3, 4}, r \in CorrIn : SetCorrelation(a, b, r)
    \/ \E z \in CIds : CReadDf(z)

SpecMix == InitMix /\ [][NextMix]_vars

(***************************************************************************)
(* Claims about willink_hall on mixed influences (SpecMix)                 *)
(***************************************************************************)
\* C23: willink_hall returns a degrees of freedom that is a number, inf or
\* NaN for every derived uncertain complex number; it never fails with an
\* assertion or an index error, also when dependent influences are real
\* elementary leaves of finite dof or one half of a complex pair is missing.
C23_WillinkHallReturns ==
    (ret.op = "cdf" /\ ~nums[ret.args.x].is_elementary)
        => /\ ret.err = "none"
           /\ ret.val.kind \in {"num", "inf", "nan"}

(***************************************************************************)
(* SpecCov: covariances of SumLeaves declared leaves and of their sums     *)
(***************************************************************************)
\* a call returning a float
FloatVal(q) == [kind |-> "float", q |-> q]

\* get_covariance_real(x1,x2)
get_covariance_real(x1, x2) ==
    IF x1.is_elementary /\ x2.is_elementary
    THEN IF leaves[x1._node.uid].independent
         THEN RMul(leaves[x1._node.uid].u, leaves[x2._node.uid].u)
         ELSE RMul(RMul(leaves[x1._node.uid].u, Corr(x1._node.uid, x2._node.uid)),
                   leaves[x2._node.uid].u)
    ELSE std_covariance_real(x1, x2)

GetCovariance(a, b) ==
    /\ ret' = Call("get_covariance", [x1 |-> a, x2 |-> b], "none",
                   FloatVal(get_covariance_real(nums[a], nums[b])))
    /\ UNCHANGED <<leaves, ens, inodes, nextE, nextI, nums, arrs>>

NextCov ==
    \/ \E a, b \in Ids : Len(nums) < CovNums /\ a < b /\ Add(a, b)
    \/ \E a, b \in DepIds, r \in RSumIn : a < b /\ SetCorrelation(a, b, r)
    \/ \E a, b \in Ids : GetCovariance(a, b)

SpecCov == InitSum /\ [][NextCov]_vars

(***************************************************************************)
(* Claims about get_covariance (SpecCov)                                   *)
(***************************************************************************)
\* C24: for two distinct elementary numbers of which at least one is
\* independent, get_covariance returns 0 in either argument order; for two
\* distinct dependent elementary numbers it returns u1*r*u2, r the
\* registered correlation (0 if none).
C24_ElementaryCovariance ==
    (/\ ret.op = "get_covariance"
     /\ nums[ret.args.x1].is_elementary /\ nums[ret.args.x2].is_elementary
     /\ UidOf(ret.args.x1) # UidOf(ret.args.x2))
    => LET l1 == leaves[UidOf(ret.args.x1)]
           l2 == leaves[UidOf(ret.args.x2)]
       IN  /\ ret.err = "none"
           /\ ret.val.q = IF l1.independent \/ l2.independent THEN Zero
                          ELSE RMul(l1.u, RMul(Corr(l1.uid, l2.uid), l2.u))

(***************************************************************************)
(* SpecDecl: declarations of elementary uncertain real and complex numbers *)
(* and correlations between their components                               *)
(***************************************************************************)
\* UncertainComplex.elementary(z,u_r,u_i,r,df,label,independent) for z = 1+2j;
\* r is << >> for None or <<q>>.  The two components are declared one after
\* the other, so the first stays registered when the second is refused.
CElementary(u_r, u_i, r, df, independent) ==
    LET args == [u_r |-> u_r, u_i |-> u_i, r |-> r, df |-> df, independent |-> independent]
        re == next_elementary_id
        im == next_elementary_id + 1
    IN  IF df < 1 \/ u_r < 0
        THEN /\ ret' = Call("celementary", args, "RuntimeError", NoneVal)
             /\ UNCHANGED <<leaves, ens, inodes, nextE, nextI, nums, arrs>>
        ELSE IF u_i < 0
        THEN /\ nextE' = re
             /\ leaves' = [k \in DOMAIN leaves \cup {re} |->
                              IF k = re THEN new_leaf(re, R(u_r), df, independent)
                              ELSE leaves[k]]
             /\ ret' = Call("celementary", args, "RuntimeError", NoneVal)
             /\ UNCHANGED <<ens, inodes, nextI, nums, arrs>>
        ELSE /\ nextE' = im
             /\ leaves' = [k \in DOMAIN leaves \cup {re, im} |->
                              IF k = re
                              THEN complex_leaf(re, im, <<re, im>>, R(u_r), df, independent, r)
                              ELSE IF k = im
                              THEN complex_leaf(im, re, <<re, im>>, R(u_i), df, independent, r)
                              ELSE leaves[k]]
             /\ nums' = nums \o <<elementary(re, 1, u_r, independent),
                                  elementary(im, 2, u_i, independent)>>
             /\ ret' = Call("celementary", args, "none",
                            CRef(Len(nums) + 1, Len(nums) + 2))
             /\ UNCHANGED <<ens, inodes, nextI, arrs>>

UDeclIn == {-1, 1}
RDeclIn == {<< >>, <<Rat(1, 2)>>}

NextDecl ==
    \/ \E ind \in BOOLEAN : nextE < DeclLeaves /\ Elementary(1, 1, 2, ind)
    \/ \E u \in UDeclIn, r \in RDeclIn, ind \in BOOLEAN :
            nextE + 1 < DeclLeaves /\ CElementary(1, u, r, 2, ind)
    \/ \E a, b \in ElemIds, r \in CorrIn : a < b /\ SetCorrelation(a, b, r)

SpecDecl == Init /\ [][NextDecl]_vars

(***************************************************************************)
(* Claims about the correlation maps (SpecDecl)                            *)
(***************************************************************************)
\* C25: in every reachable state no correlation entry involves an
\* independent leaf: the map of an independent leaf has no entry for
\* another leaf, and no leaf's map has an entry under the uid of an
\* independent leaf.
C25_IndependentLeavesUncorrelated ==
    \A k, j \in DOMAIN leaves :
        (leaves[k].independent /\ j # k)
            => /\ j \notin DOMAIN leaves[k].correlation
               /\ k \notin DOMAIN leaves[j].correlation

(***************************************************************************)
(* Claims about reads of the variance (SpecSum)                            *)
(***************************************************************************)
\* C26: whatever reads of x.u and x.v and calls of set_correlation on its
\* influences came before, a read of x.v of a derived number x gives the
\* variance for the correlation maps as they are at the read, and the
\* square of a read of x.u gives the same.
C26_VarianceIsCurrent ==
    (/\ ret.op \in {"u", "v"}
     /\ ret.err = "none"
     /\ IsTransientUN(nums[ret.args.x]))
    => (IF ret.op = "v" THEN ret.val ELSE Sq(ret.val))
            = std_variance_real(nums[ret.args.x])

(***************************************************************************)
(* Claims about willink_hall on one complex influence (SpecComplex)        *)
(***************************************************************************)
\* the only influences of (re, im) are the two leaves of the elementary
\* uncertain complex number z, of finite dof and non-zero uncertainty
OnlyInfluence(re, im, z) ==
    /\ InfluencesOf(re, im) = {UidOf(z), UidOf(z + 1)}
    /\ leaves[UidOf(z)].df # inf
    /\ leaves[UidOf(z)].u # Zero \/ leaves[UidOf(z + 1)].u # Zero

\* C27: the degrees of freedom of a derived uncertain complex number whose
\* only influence is one elementary uncertain complex number z of finite
\* dof nu and non-zero uncertainty are nu, whether z was declared
\* independent or dependent.
C27_SingleInfluenceDof ==
    \A z \in CElemIds :
        (/\ ret.op = "cdf"
         /\ ~nums[ret.args.x].is_elementary
         /\ OnlyInfluence(nums[ret.args.x], nums[ret.args.x + 1], z)
         /\ NonZeroMatrix(nums[ret.args.x], nums[ret.args.x + 1]))
        => /\ ret.err = "none"
           /\ ret.val = DofOf(leaves[UidOf(z)].df)

\* the sets of dependent keys willink_hall handles in one pass of its loop,
\* for the uncertain complex number (re, im)
WHGroups(re, im) ==
    WHSums(extend_vector(re._u_components, im._u_components),
           extend_vector(im._u_components, re._u_components),
           extend_vector(re._d_components, im._d_components),
           extend_vector(im._d_components, re._d_components)).groups

\* C28: willink_hall puts two dependent keys into one term only when they
\* are the real and the imaginary leaf of one registered complex pair; a
\* leaf whose partner is not among the influences is not paired with
\* another leaf.
C28_OnlyRegisteredPairs ==
    (/\ ret.op = "cdf" /\ ret.err = "none"
     /\ ~nums[ret.args.x].is_elementary)
    => \A g \in WHGroups(nums[ret.args.x], nums[ret.args.x + 1]) :
            \A i, j \in g : i < j => leaves[i].complex = <<i, j>>

(***************************************************************************)
(* SpecNum: the binary operators between an uncertain real and a plain     *)
(* real number, in both operand orders                                     *)
(***************************************************************************)
\* _rsub(lhs,rhs) for a plain real lhs other than 0
rsub_number(c, rhs) == scaled(rhs, RAdd(R(c), RNeg(rhs._x)), R(-1))

\* _rdiv(lhs,rhs) for a plain real lhs and rhs.x # 0
rdiv_number(c, rhs) ==
    scaled(rhs, RDiv(R(c), rhs._x), RNeg(RDiv(RDiv(R(c), rhs._x), rhs._x)))

\* c - x
RSubNumber(c, a) ==
    IF c = 0 THEN NewNumber("rsub_number", [lhs |-> c, rhs |-> a], neg(nums[a]))
    ELSE NewNumber("rsub_number", [lhs |-> c, rhs |-> a], rsub_number(c, nums[a]))

\* c / x
RDivNumber(c, a) ==
    IF nums[a]._x = Zero THEN Raises("rdiv_number", [lhs |-> c, rhs |-> a], "ZeroDivisionError")
    ELSE NewNumber("rdiv_number", [lhs |-> c, rhs |-> a], rdiv_number(c, nums[a]))

\* c ** x: _rpow reads lhs.x of the float it was given
RPowNumber(c, a) == Raises("rpow_number", [lhs |-> c, rhs |-> a], "AttributeError")

NextNum ==
    \/ \E a \in Ids, c \in NumIn : Len(nums) < ArithNums /\ AddNumber(a, c)
    \/ \E a \in Ids, c \in NumIn : Len(nums) < ArithNums /\ RAddNumber(c, a)
    \/ \E a \in Ids, c \in NumIn : Len(nums) < ArithNums /\ SubNumber(a, c)
    \/ \E a \in Ids, c \in NumIn : Len(nums) < ArithNums /\ RSubNumber(c, a)
    \/ \E a \in Ids, c \in NumIn : Len(nums) < ArithNums /\ MulNumber(a, c)
    \/ \E a \in Ids, c \in NumIn : Len(nums) < ArithNums /\ RMulNumber(c, a)
    \/ \E a \in Ids, c \in NumIn : Len(nums) < ArithNums /\ DivNumber(a, c)
    \/ \E a \in Ids, c \in NumIn : Len(nums) < ArithNums /\ RDivNumber(c, a)
    \/ \E a \in Ids, n \in PowIn : Len(nums) < ArithNums /\ PowNumber(a, n)
    \/ \E a \in Ids, c \in NumIn : RPowNumber(c, a)

SpecNum == InitArith /\ [][NextNum]_vars

(***************************************************************************)
(* Claims about the operators with a plain number (SpecNum)                *)
(***************************************************************************)
\* the calls with the uncertain operand on the left, and on the right
LeftOps == {"add_number", "sub_number", "mul_number", "div", "pow_number"}
RightOps == {"radd_number", "rsub_number", "rmul_number", "rdiv_number", "rpow_number"}

\* the influences of an uncertain real
KeysOf(un) ==
    DOMAIN un._u_components \cup DOMAIN un._d_components \cup DOMAIN un._i_components

\* C29: every binary operator between an uncertain real and a plain real
\* number, in either order and for every value of the number (a division by
\* zero aside), returns an uncertain real whose influences are among those
\* of the uncertain operand.
C29_NumberOperatorsKeepKeys ==
    (ret.op \in LeftOps \cup RightOps /\ ret.err # "ZeroDivisionError")
    => /\ ret.err = "none"
       /\ ret.val.kind = "UncertainReal"
       /\ KeysOf(nums[ret.val.id]) \subseteq
            KeysOf(nums[IF ret.op \in LeftOps THEN ret.args.lhs ELSE ret.args.rhs])

(***************************************************************************)
(* SpecEns: EnsLeaves dependent leaves and the ensembles declared over     *)
(* them, one after another                                                 *)
(***************************************************************************)
LeafEns == {<<1, 2, FALSE>>, <<1, inf, FALSE>>}

InitEns ==
    \E d \in [1..EnsLeaves -> LeafEns] :
        /\ leaves = [k \in 1..EnsLeaves |-> new_leaf(k, R(d[k][1]), d[k][2], d[k][3])]
        /\ nums = [k \in 1..EnsLeaves |-> elementary(k, 1, d[k][1], d[k][3])]
        /\ nextE = EnsLeaves
        /\ ens = << >>
        /\ inodes = << >>
        /\ nextI = 0
        /\ arrs = << >>
        /\ ret = Call("init", [x |-> None], "none", NoneVal)

NextEns ==
    \/ \E seq \in SUBSET ElemIds, df \in DfWS : Len(ens) < EnsSets /\ RealEnsemble(seq, df)
    \/ \E m, x \in ElemIds :
            /\ leaves[nums[m]._node.uid].ensemble # None
            /\ AppendRealEnsemble(m, x)

SpecEns == InitEns /\ [][NextEns]_vars

(***************************************************************************)
(* Claims about ensemble membership (SpecEns)                              *)
(***************************************************************************)
\* the uid of leaf a is in the set the leaf b refers to
InEnsemble(a, b) == UidElem(a) \in EnsembleOf(b)

\* C30: ensemble membership is symmetric after every sequence of ensemble
\* declarations and additions: the uid of leaf a is in the ensemble of leaf
\* b exactly when the uid of b is in the ensemble of a.
C30_MembershipSymmetric ==
    \A a, b \in DOMAIN leaves : InEnsemble(a, b) <=> InEnsemble(b, a)

====
